---- MODULE Spec2Model ----
(***************************************************************************)
(* Model of the chickensoftware/os kernel core: the physical frame         *)
(* allocator (chicken-util/src/memory/pmm), the page table manager         *)
(* (chicken-util/src/memory/paging), the virtual region allocator          *)
(* (chicken-kernel/src/memory/vmm) and the task scheduler                  *)
(* (chicken-kernel/src/scheduling).                                        *)
(*                                                                         *)
(* Every component is written as pure operators over records (the struct   *)
(* fields), so that an operation of one component can call the operations  *)
(* of the components below it exactly as the Rust code does.  A result is  *)
(* a record [ok, val, ...] standing for Result<T, E> / Option<T>.          *)
(***************************************************************************)
EXTENDS Integers, Sequences, FiniteSets, TLC

VARIABLES
    pmm,        \* PageFrameAllocator: memory map, bitmap, scan position, byte counters
    tables,     \* physical memory read as page tables: frame -> (index -> PageEntry)
    ptm,        \* PageTableManager: root table pointers and rebase offset
    vmm,        \* VirtualMemoryManager: head, vmm_start, vmm_page_count, pages_allocated
    objs,       \* kernel heap cells holding VmObject records (contents outlive dealloc)
    calls,      \* number of calls made of the component under observation so far
    granted,    \* what the allocator has handed out and not yet been given back
    sched,      \* TaskScheduler: head, active_task, id_counter
    procs,      \* kernel heap cells holding Process records
    threads,    \* kernel heap cells holding Thread records
    uptime,     \* milliseconds since boot, as the timer reports them
    cpu,        \* the register state the processor runs: that of thread cell cpu (0: boot code)
    client,     \* position of each thread in its entry function, and the handles it holds
    watch,      \* the statuses a process's threads went through over three schedule calls
    locks,      \* the spin locks, the interrupt flag and each context's instructions
    trap,       \* per thread cell, the trap context of its latest preemption (0: none yet)
    ret         \* the operation performed by the last step and what it returned

pmmVars == <<pmm>>
ptmVars == <<tables, ptm>>
vmmVars == <<vmm, objs, calls, granted>>
schedVars == <<sched, procs, threads, uptime, cpu, client, watch, locks, trap>>
vars == <<pmm, tables, ptm, vmm, objs, calls, granted, sched, procs, threads, uptime, cpu,
          client, watch, locks, trap, ret>>

PAGE_SIZE == 4096

Max(a, b) == IF a >= b THEN a ELSE b

(***************************************************************************)
(* Bounds of the model (not program constants).                            *)
(***************************************************************************)
\* how far a byte counter of the frame allocator may drift, in pages, before
\* the model stops issuing further single-frame transitions
MaxCounterPages == 4

(***************************************************************************)
(*                      PHYSICAL FRAME ALLOCATOR                           *)
(***************************************************************************)

\* MemoryDescriptor { phys_start, phys_end, num_pages, type }
Desc(s, e, t) ==
    [phys_start |-> s, phys_end |-> e, num_pages |-> (e - s) \div PAGE_SIZE, type |-> t]

\* MemoryDescriptor::size
DescSize(d) == d.phys_end - d.phys_start

\* A boot memory map with two Available areas separated by kernel code; the
\* first frame is firmware-reserved.  Frame 7 is below last_addr's rounding
\* but described by no descriptor.
MapSmall ==
    [descriptors |-> << Desc(0, PAGE_SIZE, "Reserved"),
                        Desc(PAGE_SIZE, 4 * PAGE_SIZE, "Available"),
                        Desc(4 * PAGE_SIZE, 5 * PAGE_SIZE, "KernelCode"),
                        Desc(5 * PAGE_SIZE, 7 * PAGE_SIZE, "Available") >>,
     first_addr |-> 0,
     last_addr |-> 7 * PAGE_SIZE]

\* Result constructors carrying the allocator state after the call
POk(v, p) == [ok |-> TRUE, val |-> v, pmm |-> p]
PErr(e, p) == [ok |-> FALSE, val |-> e, pmm |-> p]

\* BitMap: buffer of `len` bytes; `bits` is the set of bit indices that are 1
\* (bit index = byte_index * 8 + bit_index, as get/set compute it).
BitMapGet_stuck(bm, index) ==
    IF index \div 8 >= bm.len
    THEN [ok |-> FALSE, val |-> "InvalidBitMapIndex"]
    ELSE [ok |-> TRUE, val |-> FALSE]

BitMapGet(bm, index) ==
    IF index \div 8 >= bm.len
    THEN [ok |-> FALSE, val |-> "InvalidBitMapIndex"]
    ELSE [ok |-> TRUE, val |-> (index \in bm.bits)]

BitMapSet(bm, index, value) ==
    IF index \div 8 >= bm.len
    THEN [ok |-> FALSE, val |-> "InvalidBitMapIndex", bm |-> bm]
    ELSE [ok |-> TRUE, val |-> "unit",
          bm |-> [bm EXCEPT !.bits = IF value THEN @ \cup {index} ELSE @ \ {index}]]

\* BitMap::pages: size_of::<BitMap>() is the size of the slice reference (16 bytes)
SizeOfBitMap == 16
BitMapPages == (SizeOfBitMap + PAGE_SIZE - 1) \div PAGE_SIZE

allocate_frame_uncounted(p, address) ==
    LET index == address \div PAGE_SIZE
        g == BitMapGet(p.bit_map, index)
    IN  IF ~g.ok THEN PErr(g.val, p)
        ELSE IF g.val THEN POk("unit", p)
        ELSE POk("unit", [p EXCEPT !.bit_map = BitMapSet(@, index, TRUE).bm,
                                   !.free_memory = @ - PAGE_SIZE])

allocate_frame(p, address) ==
    LET index == address \div PAGE_SIZE
        g == BitMapGet(p.bit_map, index)
    IN  IF ~g.ok THEN PErr(g.val, p)
        ELSE IF g.val THEN POk("unit", p)
        ELSE POk("unit", [p EXCEPT !.bit_map = BitMapSet(@, index, TRUE).bm,
                                   !.free_memory = @ - PAGE_SIZE,
                                   !.used_memory = @ + PAGE_SIZE])

free_frame(p, address) ==
    LET index == address \div PAGE_SIZE
        g == BitMapGet(p.bit_map, index)
    IN  IF ~g.ok THEN PErr(g.val, p)
        ELSE IF ~g.val THEN POk("unit", p)
        ELSE POk("unit", [p EXCEPT !.bit_map = BitMapSet(@, index, FALSE).bm,
                                   !.free_memory = @ + PAGE_SIZE,
                                   !.used_memory = @ - PAGE_SIZE])

reserve_frame_recount(p, address) ==
    LET index == address \div PAGE_SIZE
        g == BitMapGet(p.bit_map, index)
    IN  IF ~g.ok THEN PErr(g.val, p)
        ELSE POk("unit", [p EXCEPT !.bit_map = BitMapSet(@, index, TRUE).bm,
                                   !.free_memory = @ - PAGE_SIZE,
                                   !.reserved_memory = @ + PAGE_SIZE])

reserve_frame(p, address) ==
    LET index == address \div PAGE_SIZE
        g == BitMapGet(p.bit_map, index)
    IN  IF ~g.ok THEN PErr(g.val, p)
        ELSE IF g.val THEN POk("unit", p)
        ELSE POk("unit", [p EXCEPT !.bit_map = BitMapSet(@, index, TRUE).bm,
                                   !.free_memory = @ - PAGE_SIZE,
                                   !.reserved_memory = @ + PAGE_SIZE])

free_reserved_frame(p, address) ==
    LET index == address \div PAGE_SIZE
        g == BitMapGet(p.bit_map, index)
    IN  IF ~g.ok THEN PErr(g.val, p)
        ELSE IF ~g.val THEN POk("unit", p)
        ELSE POk("unit", [p EXCEPT !.bit_map = BitMapSet(@, index, FALSE).bm,
                                   !.free_memory = @ + PAGE_SIZE,
                                   !.reserved_memory = @ - PAGE_SIZE])

\* the batch variants: for i in 0..page_count { single(start + i * PAGE_SIZE)?; }
RECURSIVE allocate_frames_from(_, _, _, _)
allocate_frames_from(p, start_address, page_count, i) ==
    IF i >= page_count THEN POk("unit", p)
    ELSE LET r == allocate_frame(p, start_address + i * PAGE_SIZE)
         IN  IF ~r.ok THEN r ELSE allocate_frames_from(r.pmm, start_address, page_count, i + 1)
allocate_frames(p, start_address, page_count) ==
    allocate_frames_from(p, start_address, page_count, 0)

RECURSIVE free_frames_from(_, _, _, _)
free_frames_from(p, start_address, page_count, i) ==
    IF i >= page_count THEN POk("unit", p)
    ELSE LET r == free_frame(p, start_address + i * PAGE_SIZE)
         IN  IF ~r.ok THEN r ELSE free_frames_from(r.pmm, start_address, page_count, i + 1)
free_frames(p, start_address, page_count) ==
    free_frames_from(p, start_address, page_count, 0)

RECURSIVE reserve_frames_from(_, _, _, _)
reserve_frames_from(p, start_address, page_count, i) ==
    IF i >= page_count THEN POk("unit", p)
    ELSE LET r == reserve_frame(p, start_address + i * PAGE_SIZE)
         IN  IF ~r.ok THEN r ELSE reserve_frames_from(r.pmm, start_address, page_count, i + 1)
reserve_frames(p, start_address, page_count) ==
    reserve_frames_from(p, start_address, page_count, 0)

RECURSIVE free_reserved_frames_from(_, _, _, _)
free_reserved_frames_from(p, start_address, page_count, i) ==
    IF i >= page_count THEN POk("unit", p)
    ELSE LET r == free_reserved_frame(p, start_address + i * PAGE_SIZE)
         IN  IF ~r.ok THEN r
             ELSE free_reserved_frames_from(r.pmm, start_address, page_count, i + 1)
free_reserved_frames(p, start_address, page_count) ==
    free_reserved_frames_from(p, start_address, page_count, 0)

\* request_page, inner loop: for addr in (start..desc.phys_end).step_by(PAGE_SIZE)
\* `done` tells whether the function returned from inside the loop.
RECURSIVE scan_descriptor(_, _, _, _)
scan_descriptor(p, desc_index, addr, end) ==
    IF addr >= end THEN [done |-> FALSE, res |-> POk("none", p)]
    ELSE LET g == BitMapGet(p.bit_map, addr \div PAGE_SIZE)
         IN  IF ~g.ok THEN [done |-> TRUE, res |-> PErr(g.val, p)]
             ELSE IF ~g.val
             THEN LET a == allocate_frame(p, addr)
                  IN  IF ~a.ok THEN [done |-> TRUE, res |-> a]
                      ELSE [done |-> TRUE,
                            res |-> POk(addr, [a.pmm EXCEPT
                                        !.current_descriptor_index = desc_index,
                                        !.current_address = addr + PAGE_SIZE])]
             ELSE scan_descriptor(p, desc_index, addr + PAGE_SIZE, end)

\* request_page, outer loop: for desc_index in current_descriptor_index..len
RECURSIVE request_page_from(_, _)
request_page_from(p, desc_index) ==
    IF desc_index >= Len(p.memory_map.descriptors)
    THEN PErr("NoMoreFreePages",
              [p EXCEPT !.current_descriptor_index = 0, !.current_address = 0])
    ELSE LET desc == p.memory_map.descriptors[desc_index + 1]
             s == IF desc.type = "Available"
                  THEN scan_descriptor(p, desc_index,
                                       Max(p.current_address, desc.phys_start),
                                       desc.phys_end)
                  ELSE [done |-> FALSE, res |-> POk("none", p)]
         IN  IF s.done THEN s.res
             ELSE request_page_from([p EXCEPT !.current_address = desc.phys_start],
                                    desc_index + 1)

request_page_no_rewind(p) ==
    LET r == request_page_from(p, p.current_descriptor_index)
    IN  IF r.ok THEN r
        ELSE PErr(r.val, [r.pmm EXCEPT
                            !.current_descriptor_index = p.current_descriptor_index,
                            !.current_address = p.current_address])

request_page(p) == request_page_from(p, p.current_descriptor_index)

\* total_available_memory
RECURSIVE SumAvailable(_, _)
SumAvailable(descs, i) ==
    IF i > Len(descs) THEN 0
    ELSE (IF descs[i].type = "Available" THEN DescSize(descs[i]) ELSE 0)
         + SumAvailable(descs, i + 1)
total_available_memory(mmap) == SumAvailable(mmap.descriptors, 1)

\* max_by(size) over the Available descriptors: the last of the largest
LargestAvailable(mmap) ==
    LET avail == {i \in 1..Len(mmap.descriptors) : mmap.descriptors[i].type = "Available"}
    IN  CHOOSE i \in avail :
            \A j \in avail :
                \/ DescSize(mmap.descriptors[j]) < DescSize(mmap.descriptors[i])
                \/ (DescSize(mmap.descriptors[j]) = DescSize(mmap.descriptors[i]) /\ j <= i)

\* try_new, last step: reserve every non-Available descriptor, in order
RECURSIVE reserve_descriptors(_, _)
reserve_descriptors(p, i) ==
    IF i > Len(p.memory_map.descriptors) THEN POk("unit", p)
    ELSE LET d == p.memory_map.descriptors[i]
         IN  IF d.type = "Available" THEN reserve_descriptors(p, i + 1)
             ELSE LET r == reserve_frames(p, d.phys_start, d.num_pages)
                  IN  IF ~r.ok THEN r ELSE reserve_descriptors(r.pmm, i + 1)

try_new(memory_map) ==
    IF \A i \in 1..Len(memory_map.descriptors) : memory_map.descriptors[i].type # "Available"
    THEN PErr("InvalidMemoryMap", [memory_map |-> memory_map])
    ELSE
    LET largest == memory_map.descriptors[LargestAvailable(memory_map)]
        total_pages == (memory_map.last_addr + PAGE_SIZE - 1) \div PAGE_SIZE
        bit_map_size == (total_pages + 7) \div 8
        instance == [memory_map |-> memory_map,
                     bit_map |-> [len |-> bit_map_size, bits |-> {}],
                     current_descriptor_index |-> 0,
                     current_address |-> 0,
                     free_memory |-> total_available_memory(memory_map),
                     used_memory |-> 0,
                     reserved_memory |-> 0]
        r1 == reserve_frames(instance, largest.phys_start, BitMapPages)
    IN  IF ~r1.ok THEN r1 ELSE reserve_descriptors(r1.pmm, 1)

(***************************************************************************)
(* Frame allocator used on its own: any sequence of its public operations. *)
(***************************************************************************)
\* addresses handed to the single-frame operations: every tracked frame and
\* one frame past the bitmap (InvalidBitMapIndex)
PmmAddrs == {i * PAGE_SIZE : i \in 0..8}

NoRet == [op |-> "init", arg |-> 0, ok |-> TRUE, val |-> "unit"]

\* the region allocator before GlobalVirtualMemoryManager::init
NoVmm == [head |-> 0, vmm_start |-> [hi |-> 0, lo |-> 0], vmm_page_count |-> 0,
          pages_allocated |-> 0]

\* the scheduler before GlobalTaskScheduler::init
NoSched ==
    /\ sched = [head |-> 0, active_task |-> 0, id_counter |-> 0]
    /\ procs = <<>>
    /\ threads = <<>>
    /\ uptime = 0
    /\ cpu = 0
    /\ client = <<>>
    /\ watch = [pid |-> 0, calls |-> 0, tids |-> {}, ran |-> {}]
    /\ locks = <<>>
    /\ trap = <<>>

CountersInBound(p) ==
    /\ p.used_memory >= -(MaxCounterPages * PAGE_SIZE)
    /\ p.used_memory <= MaxCounterPages * PAGE_SIZE
    /\ p.reserved_memory >= -(MaxCounterPages * PAGE_SIZE)
    /\ p.reserved_memory <= MaxCounterPages * PAGE_SIZE

\* (start, page count) handed to the batch variants: two frames inside the
\* bitmap, and the last frame of the bitmap followed by one past it
PmmBatches == {<<2 * PAGE_SIZE, 2>>, <<7 * PAGE_SIZE, 2>>}

\* `moved`: the bytes the call added to free_memory
PmmStep(op, arg, r) ==
    /\ CountersInBound(r.pmm)
    /\ pmm' = r.pmm
    /\ UNCHANGED <<ptmVars, vmmVars, schedVars>>
    /\ ret' = [op |-> op, arg |-> arg, ok |-> r.ok, val |-> r.val,
               moved |-> r.pmm.free_memory - pmm.free_memory]

RequestPage == PmmStep("request_page", 0, request_page(pmm))
AllocateFrame == \E a \in PmmAddrs : PmmStep("allocate_frame", a, allocate_frame(pmm, a))
FreeFrame == \E a \in PmmAddrs : PmmStep("free_frame", a, free_frame(pmm, a))
ReserveFrame == \E a \in PmmAddrs : PmmStep("reserve_frame", a, reserve_frame(pmm, a))
FreeReservedFrame ==
    \E a \in PmmAddrs : PmmStep("free_reserved_frame", a, free_reserved_frame(pmm, a))

AllocateFrames ==
    \E b \in PmmBatches : PmmStep("allocate_frames", b, allocate_frames(pmm, b[1], b[2]))
FreeFrames ==
    \E b \in PmmBatches : PmmStep("free_frames", b, free_frames(pmm, b[1], b[2]))
ReserveFrames ==
    \E b \in PmmBatches : PmmStep("reserve_frames", b, reserve_frames(pmm, b[1], b[2]))
FreeReservedFrames ==
    \E b \in PmmBatches : PmmStep("free_reserved_frames", b, free_reserved_frames(pmm, b[1], b[2]))

InitPmm ==
    /\ pmm = try_new(MapSmall).pmm
    /\ tables = <<>>
    /\ ptm = [page_map_level4_physical |-> 0, page_map_level4_virtual |-> 0, offset |-> 0]
    /\ vmm = NoVmm
    /\ objs = <<>>
    /\ calls = 0
    /\ granted = {}
    /\ NoSched
    /\ ret = NoRet

NextPmm ==
    \/ RequestPage
    \/ AllocateFrame
    \/ FreeFrame
    \/ ReserveFrame
    \/ FreeReservedFrame
    \/ AllocateFrames
    \/ FreeFrames
    \/ ReserveFrames
    \/ FreeReservedFrames

SpecPmm == InitPmm /\ [][NextPmm]_vars

\* Is frame `address` inside a descriptor of type Available?
InAvailable(p, address) ==
    \E i \in 1..Len(p.memory_map.descriptors) :
        /\ p.memory_map.descriptors[i].type = "Available"
        /\ p.memory_map.descriptors[i].phys_start <= address
        /\ address < p.memory_map.descriptors[i].phys_end

\* C3: in any sequence of frame-allocator operations, a successful
\* request_page returns a frame whose bit was clear (Free) immediately before
\* the call - never one that is Used or Reserved - and the frame is Used after
\* it: its bit is set, it was accounted to used_memory, and it lies in an
\* Available descriptor.
C3_RequestPageReturnsFreeFrame ==
    [][(ret'.op = "request_page" /\ ret'.ok) =>
         /\ (ret'.val \div PAGE_SIZE) \notin pmm.bit_map.bits
         /\ (ret'.val \div PAGE_SIZE) \in pmm'.bit_map.bits
         /\ pmm'.bit_map.bits = pmm.bit_map.bits \cup {ret'.val \div PAGE_SIZE}
         /\ pmm'.used_memory = pmm.used_memory + PAGE_SIZE
         /\ pmm'.free_memory = pmm.free_memory - PAGE_SIZE
         /\ InAvailable(pmm, ret'.val)]_vars

\* C3 witness: request_page has skipped the Used frames 2 and 3 and the
\* reserved kernel-code frame 4 and handed out frame 5 of the second area.
C3_Witness ==
    /\ ret.op = "request_page" /\ ret.ok
    /\ ret.val = 5 * PAGE_SIZE
    /\ {1, 2, 3, 4, 5} \subseteq pmm.bit_map.bits

(***************************************************************************)
(*                         PAGE TABLE MANAGER                              *)
(***************************************************************************)
\* A virtual address is kept split, [hi, lo] with value hi * 2^30 + lo: lo is
\* bits 0..29 and hi is bits 30..47 (the bits above are the sign extension of
\* bit 47), so that the higher-half windows fit the checker's integers.
GIB == 2^30
VA(hi, lo) == [hi |-> hi, lo |-> lo]
\* u64 addition of a byte count to a virtual address
VaAdd(v, n) == [hi |-> v.hi + ((v.lo + n) \div GIB), lo |-> (v.lo + n) % GIB]
\* u64 subtraction of two virtual addresses of the same window
VaSub(a, b) == (a.hi - b.hi) * GIB + (a.lo - b.lo)
VaGeq(a, b) == a.hi > b.hi \/ (a.hi = b.hi /\ a.lo >= b.lo)

\* PageMapIndexer::new: four 9-bit fields above the 12-bit page offset
PageMapIndexer(v) ==
    [page_index |-> (v.lo \div PAGE_SIZE) % 512,
     page_table_index |-> (v.lo \div (PAGE_SIZE * 512)) % 512,
     page_directory_index |-> v.hi % 512,
     page_directory_pointer_index |-> (v.hi \div 512) % 512]

\* PageEntryFlags: the flags of the low 12 bits, and those above them
LowFlags == {"PRESENT", "READ_WRITE", "USER_SUPER", "WRITE_THROUGH", "CACHE_DISABLED",
             "ACCESSED", "DIRTY_AVL", "PAT_PAGE_SIZE", "GLOBAL_AVL", "AVAILABLE_MASK"}
HighFlags == {"PROTECTION_KEY_AVL", "EXECUTE_DISABLE"}

\* PageEntry(u64): `address` is bits 12..51 (as a byte address), `flags` the low
\* 12 bits, `high` the bits 52..63.
ZeroEntry == [address |-> 0, flags |-> {}, high |-> {}]

\* PageEntry::set_address: self.0 = (self.0 & 0xfff) | (address & 0x000f_ffff_ffff_f000)
set_address_keep(e, address) == e
set_address(e, address) ==
    [e EXCEPT !.address = address - (address % PAGE_SIZE), !.high = {}]

\* PageEntry::set_flags: only the lower 12 bits of the flags are stored
set_flags(e, flags) == [e EXCEPT !.flags = flags \cap LowFlags]

\* PageEntry::address / PageEntry::flags
entry_address(e) == e.address
entry_flags(e) == e.flags

\* Memory holding page tables.  Only non-zero entries are kept, so a zero-filled
\* table is the empty function and an all-zero frame is absent.
ReadEntry(t, frame, index) ==
    IF frame \in DOMAIN t /\ index \in DOMAIN t[frame] THEN t[frame][index] ELSE ZeroEntry

WriteEntry(t, frame, index, e) ==
    LET old == IF frame \in DOMAIN t THEN t[frame] ELSE <<>>
        new == IF e = ZeroEntry
               THEN [i \in (DOMAIN old) \ {index} |-> old[i]]
               ELSE [i \in (DOMAIN old) \cup {index} |-> IF i = index THEN e ELSE old[i]]
    IN  IF DOMAIN new = {}
        THEN [f \in (DOMAIN t) \ {frame} |-> t[f]]
        ELSE [f \in (DOMAIN t) \cup {frame} |-> IF f = frame THEN new ELSE t[f]]

\* core::ptr::write_bytes(table, 0, 1)
ZeroTable(t, frame) == [f \in (DOMAIN t) \ {frame} |-> t[f]]

\* A table pointer is entry.address() + offset; the frame it designates is
\* reached through the direct mapping the offset stands for.
FrameOf(m, pointer) == pointer - m.offset

\* PageTableManager::new
ptm_new(page_map_level4_physical) ==
    [page_map_level4_physical |-> page_map_level4_physical,
     page_map_level4_virtual |-> page_map_level4_physical,
     offset |-> 0]

get_next_table(m, t, current_table, index) ==
    LET entry == ReadEntry(t, FrameOf(m, current_table), index)
    IN  IF "PRESENT" \in entry_flags(entry)
        THEN [some |-> TRUE, val |-> entry_address(entry) + m.offset]
        ELSE [some |-> FALSE, val |-> 0]

\* get_or_create_next_table, entry not present: r is the result of request_page
create_next_table(m, t, frame, index, user, r) ==
    IF ~r.ok THEN [ok |-> FALSE, val |-> r.val, tables |-> t, pmm |-> r.pmm]
    ELSE [ok |-> TRUE, val |-> r.val + m.offset,
          tables |-> WriteEntry(ZeroTable(t, FrameOf(m, r.val + m.offset)), frame, index,
                        set_flags(set_address(ReadEntry(ZeroTable(t, FrameOf(m, r.val + m.offset)),
                                                        frame, index), r.val),
                                  {"PRESENT", "READ_WRITE"}
                                      \cup (IF user THEN {"USER_SUPER"} ELSE {}))),
          pmm |-> r.pmm]

reuse_next_table_as_is(m, t, p, frame, index, user, entry) ==
    [ok |-> TRUE, val |-> entry_address(entry) + m.offset, tables |-> t, pmm |-> p]

\* get_or_create_next_table, entry present: promote to user access if asked
reuse_next_table(m, t, p, frame, index, user, entry) ==
    [ok |-> TRUE, val |-> entry_address(entry) + m.offset,
     tables |-> IF user /\ "USER_SUPER" \notin entry_flags(entry)
                THEN WriteEntry(t, frame, index,
                                set_flags(entry, entry_flags(entry) \cup {"USER_SUPER"}))
                ELSE t,
     pmm |-> p]

get_or_create_next_table(m, t, p, current_table, index, user) ==
    IF "PRESENT" \in entry_flags(ReadEntry(t, FrameOf(m, current_table), index))
    THEN reuse_next_table(m, t, p, FrameOf(m, current_table), index, user,
                          ReadEntry(t, FrameOf(m, current_table), index))
    ELSE create_next_table(m, t, FrameOf(m, current_table), index, user, request_page(p))

\* map_memory, last step: write the leaf entry into the level-1 table l1.val
map_leaf(m, indexer, physical_memory, flags, l1) ==
    IF ~l1.ok THEN l1
    ELSE [ok |-> TRUE, val |-> "unit",
          tables |-> WriteEntry(l1.tables, FrameOf(m, l1.val), indexer.page_index,
                        set_flags(set_address(ReadEntry(l1.tables, FrameOf(m, l1.val),
                                                        indexer.page_index),
                                              physical_memory),
                                  flags)),
          pmm |-> l1.pmm]

\* map_memory, one intermediate level below the table `up` resolved so far
map_level(m, index, user, up) ==
    IF ~up.ok THEN up
    ELSE get_or_create_next_table(m, up.tables, up.pmm, up.val, index, user)

map_memory_at(m, t, p, indexer, physical_memory, flags, user) ==
    map_leaf(m, indexer, physical_memory, flags,
        map_level(m, indexer.page_table_index, user,
            map_level(m, indexer.page_directory_index, user,
                map_level(m, indexer.page_directory_pointer_index, user,
                    [ok |-> TRUE, val |-> m.page_map_level4_virtual,
                     tables |-> t, pmm |-> p]))))

map_memory(m, t, p, virtual_memory, physical_memory, flags) ==
    map_memory_at(m, t, p, PageMapIndexer(virtual_memory), physical_memory, flags,
                  "USER_SUPER" \in flags)

\* One level of the read-only walk; `some` stays FALSE once a level is absent
\* (the `?` of get_entry_data and unmap).
walk_level(m, t, index, up) ==
    IF ~up.some THEN up ELSE get_next_table(m, t, up.val, index)

WalkToLeafTable(m, t, indexer) ==
    walk_level(m, t, indexer.page_table_index,
        walk_level(m, t, indexer.page_directory_index,
            walk_level(m, t, indexer.page_directory_pointer_index,
                [some |-> TRUE, val |-> m.page_map_level4_virtual])))

leaf_entry_data(m, t, index, l1) ==
    IF ~l1.some THEN [some |-> FALSE, addr |-> 0, flags |-> {}]
    ELSE [some |-> TRUE,
          addr |-> entry_address(ReadEntry(t, FrameOf(m, l1.val), index)),
          flags |-> entry_flags(ReadEntry(t, FrameOf(m, l1.val), index))]

get_entry_data(m, t, virtual_address) ==
    leaf_entry_data(m, t, PageMapIndexer(virtual_address).page_index,
                    WalkToLeafTable(m, t, PageMapIndexer(virtual_address)))

entry_data_physical(d) == [some |-> d.some, val |-> d.addr]

get_physical(m, t, virtual_address) ==
    entry_data_physical(get_entry_data(m, t, virtual_address))

\* unmap, last step: `invlpg` is the address handed to invalidate_tlb_entry
unmap_leaf(m, t, index, l1) ==
    IF ~l1.some THEN [some |-> FALSE, val |-> 0, tables |-> t, invlpg |-> <<>>]
    ELSE [some |-> TRUE,
          val |-> entry_address(ReadEntry(t, FrameOf(m, l1.val), index)),
          tables |-> WriteEntry(t, FrameOf(m, l1.val), index,
                        set_flags(set_address(ReadEntry(t, FrameOf(m, l1.val), index), 0),
                                  {})),
          invlpg |-> <<entry_address(ReadEntry(t, FrameOf(m, l1.val), index))>>]

unmap(m, t, virtual_memory) ==
    unmap_leaf(m, t, PageMapIndexer(virtual_memory).page_index,
               WalkToLeafTable(m, t, PageMapIndexer(virtual_memory)))

(***************************************************************************)
(* Page table manager used on its own, as paging::setup builds it: the     *)
(* root table is a freshly requested, zeroed frame and the offset is 0.    *)
(***************************************************************************)
\* one Reserved frame, then Available memory for the bitmap and the tables
MapPtm ==
    [descriptors |-> << Desc(0, PAGE_SIZE, "Reserved"),
                        Desc(PAGE_SIZE, 7 * PAGE_SIZE, "Available") >>,
     first_addr |-> 0,
     last_addr |-> 7 * PAGE_SIZE]

\* virtual addresses that share all or only the root of the intermediate tables
PtmVAs == {VA(0, PAGE_SIZE), VA(0, 2 * PAGE_SIZE), VA(512, 0)}
\* physical frames to map (device or RAM frames, never handed out as tables)
PtmFrames == {32 * PAGE_SIZE, 33 * PAGE_SIZE}
PtmFlagSets == {{"PRESENT", "READ_WRITE"}, {"PRESENT", "USER_SUPER", "EXECUTE_DISABLE"}}

PtmSetup(r) ==
    /\ pmm = r.pmm
    /\ tables = <<>>
    /\ ptm = ptm_new(r.val)
    /\ vmm = NoVmm
    /\ objs = <<>>
    /\ calls = 0
    /\ granted = {}
    /\ NoSched
    /\ ret = NoRet

InitPtm ==
    PtmSetup(request_page(try_new(MapPtm).pmm))

\* the flags of the intermediate entries on the way to the leaf table, root
\* first, as far as get_next_table can follow them
PathBelow(m, t, indexes, up) ==
    IF ~up.some \/ indexes = <<>> THEN <<>>
    ELSE <<entry_flags(ReadEntry(t, FrameOf(m, up.val), Head(indexes)))>>

PathFlags(m, t, indexer) ==
    LET l4 == [some |-> TRUE, val |-> m.page_map_level4_virtual]
        l3 == get_next_table(m, t, l4.val, indexer.page_directory_pointer_index)
        l2 == walk_level(m, t, indexer.page_directory_index, l3)
    IN  PathBelow(m, t, <<indexer.page_directory_pointer_index>>, l4)
            \o PathBelow(m, t, <<indexer.page_directory_index>>, l3)
            \o PathBelow(m, t, <<indexer.page_table_index>>, l2)

MapMemoryStep(v, pa, f, r) ==
    /\ pmm' = r.pmm
    /\ tables' = r.tables
    /\ UNCHANGED <<ptm, vmmVars, schedVars>>
    /\ ret' = [op |-> "map_memory", arg |-> <<v, pa, f>>, ok |-> r.ok, val |-> r.val,
               pa |-> pa, was |-> get_entry_data(ptm, tables, v), invlpg |-> <<>>,
               path |-> PathFlags(ptm, tables, PageMapIndexer(v))]

MapMemory ==
    \E v \in PtmVAs, pa \in PtmFrames, f \in PtmFlagSets :
        MapMemoryStep(v, pa, f, map_memory(ptm, tables, pmm, v, pa, f))

UnmapStep(v, r) ==
    /\ tables' = r.tables
    /\ UNCHANGED <<pmm, ptm, vmmVars, schedVars>>
    /\ ret' = [op |-> "unmap", arg |-> <<v>>, ok |-> r.some,
               val |-> IF r.some THEN "Some" ELSE "None",
               pa |-> r.val, was |-> get_entry_data(ptm, tables, v),
               invlpg |-> r.invlpg, path |-> PathFlags(ptm, tables, PageMapIndexer(v))]

Unmap ==
    \E v \in PtmVAs :
        UnmapStep(v, unmap(ptm, tables, v))

NextPtm ==
    \/ MapMemory
    \/ Unmap

SpecPtm == InitPtm /\ [][NextPtm]_vars

\* C4: whenever map_memory(v, p, f) returns Ok, get_physical(v) returns Some(p)
\* right after it, whether v was never mapped, mapped to another frame or mapped
\* and unmapped before; and when the tables leading to v already exist (as after
\* an unmap of v) map_memory does return Ok.
C4_MapThenGetPhysical ==
    [][ret'.op = "map_memory" =>
         /\ (ret'.was.some => ret'.ok)
         /\ (ret'.ok => get_physical(ptm', tables', ret'.arg[1])
                            = [some |-> TRUE, val |-> ret'.arg[2]])]_vars

\* map_memory(v, p2, f2) has just succeeded on an address that had been mapped
\* and unmapped (its leaf entry was zero in a table only v uses), and
\* get_physical(v) gives p2
C4_Witness ==
    /\ ret.op = "map_memory" /\ ret.ok
    /\ ret.arg[1] = VA(512, 0)
    /\ ret.was = [some |-> TRUE, addr |-> 0, flags |-> {}]
    /\ get_physical(ptm, tables, ret.arg[1]) = [some |-> TRUE, val |-> ret.arg[2]]

\* C5: after unmap(v) on an address v that was mapped, get_physical(v) and
\* get_entry_data(v) return None.
C5_UnmapThenAbsent ==
    [][(ret'.op = "unmap" /\ ret'.was.some /\ "PRESENT" \in ret'.was.flags) =>
         /\ ~get_physical(ptm', tables', ret'.arg[1]).some
         /\ ~get_entry_data(ptm', tables', ret'.arg[1]).some]_vars

(***************************************************************************)
(*                       VIRTUAL MEMORY MANAGER                            *)
(***************************************************************************)
\* VIRTUAL_VMM_BASE = 0xFFFF_FFFF_C000_0000: bits 30..47 are 0x3FFFF, the rest 0
VIRTUAL_VMM_BASE == VA(262143, 0)

\* capacity of the window in pages (VMM_PAGE_COUNT in the kernel), kept small
VmmPageCount == 5
\* number of kernel heap cells that can hold a VmObject
MaxVmObjects == 5
\* length of the sequences of alloc/free calls that are followed
MaxCalls == 9

\* impl From<VmFlags> for PageEntryFlags
PageEntryFlagsFrom(value) ==
    {"PRESENT"}
        \cup (IF "WRITE" \in value THEN {"READ_WRITE"} ELSE {})
        \cup (IF "EXECUTABLE" \notin value THEN {"EXECUTE_DISABLE"} ELSE {})
        \cup (IF "USER" \in value THEN {"USER_SUPER"} ELSE {})

\* align_up: (number + align - 1) & !(align - 1), align a power of two
align_up(number, align) == ((number + align - 1) \div align) * align

\* A heap cell.  `live` is the allocator's view of the block; the fields keep
\* their last contents after dealloc, which is what a dangling pointer reads.
DeadObj == [live |-> FALSE, base |-> 0, length |-> 0, flags |-> {}, next |-> 0, prev |-> 0]

\* VmObject::alloc_new, the heap handing out cell `slot`
alloc_new(o, slot, base, length, flags, next, prev) ==
    [o EXCEPT ![slot] = [live |-> TRUE, base |-> base, length |-> length,
                         flags |-> flags, next |-> next, prev |-> prev]]

\* alloc::alloc::dealloc of a VmObject
dealloc(o, slot) == [o EXCEPT ![slot].live = FALSE]

\* VirtualMemoryManager::new
vmm_new(vmm_start, vmm_page_count) ==
    [head |-> 0, vmm_start |-> vmm_start, vmm_page_count |-> vmm_page_count,
     pages_allocated |-> 0]

\* usize comparison a > b, a negative number standing for a wrapped-around one
UsizeGt(a, b) == a < 0 \/ a > b

\* alloc, lines 101-140: walk from `current` to the place of the new object.
\* The loop only reads, so a walk longer than the heap has cells never ends.
RECURSIVE alloc_find(_, _, _, _)
alloc_find(o, current, length, fuel) ==
    IF fuel = 0 THEN [place |-> "hang", current |-> current, base |-> 0]
    ELSE IF o[current].prev # 0
            /\ o[o[current].prev].base + o[o[current].prev].length + length
                   < o[current].base
    THEN [place |-> "between", current |-> current,
          base |-> o[o[current].prev].base + o[o[current].prev].length]
    ELSE IF o[current].prev = 0 /\ length < o[current].base
    THEN [place |-> "before", current |-> current, base |-> 0]
    ELSE IF o[current].next = 0
    THEN [place |-> "after", current |-> current,
          base |-> o[current].base + o[current].length]
    ELSE alloc_find(o, o[current].next, length, fuel - 1)

\* alloc, lines 109-136: create the object and link it where alloc_find said
alloc_link(o, slot, f, length, flags) ==
    IF f.place = "between"
    THEN [[alloc_new(o, slot, f.base, length, flags, f.current, o[f.current].prev)
              EXCEPT ![o[f.current].prev].next = slot]
              EXCEPT ![f.current].prev = slot]
    ELSE IF f.place = "before"
    THEN [alloc_new(o, slot, 0, length, flags, f.current, 0)
              EXCEPT ![f.current].prev = slot]
    ELSE [alloc_new(o, slot, f.base, length, flags, 0, f.current)
              EXCEPT ![f.current].next = slot]

VmOk(val, v, o, t, p) ==
    [ok |-> TRUE, val |-> val, vmm |-> v, objs |-> o, tables |-> t, pmm |-> p]
VmErr(val, v, o, t, p) ==
    [ok |-> FALSE, val |-> val, vmm |-> v, objs |-> o, tables |-> t, pmm |-> p]

\* alloc, lines 150-168: back and map the pages one by one; an error of
\* request_page or map_memory ends the loop (the `?`)
RECURSIVE alloc_pages(_, _, _, _, _, _, _, _)
alloc_page_clear(m, start, page, page_count, flags, allocation_type, physical_address, mr) ==
    IF ~mr.ok THEN mr
    ELSE alloc_pages(m,
                     IF "MMIO" \notin flags /\ "WRITE" \in flags
                     THEN ZeroTable(mr.tables, physical_address) ELSE mr.tables,
                     mr.pmm, start, page + 1, page_count, flags, allocation_type)

alloc_page_map(m, t, start, page, page_count, flags, allocation_type, r) ==
    IF ~r.ok THEN [ok |-> FALSE, val |-> r.val, tables |-> t, pmm |-> r.pmm]
    ELSE alloc_page_clear(m, start, page, page_count, flags, allocation_type, r.val,
             map_memory(m, t, r.pmm, VaAdd(start, page * PAGE_SIZE), r.val,
                        PageEntryFlagsFrom(flags)))

alloc_pages(m, t, p, start, page, page_count, flags, allocation_type) ==
    IF page >= page_count THEN [ok |-> TRUE, val |-> "unit", tables |-> t, pmm |-> p]
    ELSE alloc_page_map(m, t, start, page, page_count, flags, allocation_type,
             IF allocation_type.type = "AnyPages" THEN request_page(p)
             ELSE POk(allocation_type.address + page * PAGE_SIZE, p))

\* alloc, lines 146-170, once the object is linked at `base`
alloc_backed(v, o, base, mapped) ==
    IF mapped.ok THEN VmOk(VaAdd(v.vmm_start, base), v, o, mapped.tables, mapped.pmm)
    ELSE VmErr(mapped.val, v, o, mapped.tables, mapped.pmm)

alloc_back(v, o, m, t, p, base, length, flags, allocation_type) ==
    alloc_backed([v EXCEPT !.pages_allocated = @ + length \div PAGE_SIZE], o, base,
        alloc_pages(m, t, p, VaAdd(v.vmm_start, base), 0, length \div PAGE_SIZE,
                    flags, allocation_type))

alloc_found(v, o, m, t, p, slot, length, flags, allocation_type, f) ==
    IF f.place = "hang" THEN VmErr("hang", v, o, t, p)
    ELSE alloc_back(v, alloc_link(o, slot, f, length, flags), m, t, p, f.base, length,
                    flags, allocation_type)

alloc_aligned_lax(v, o, m, t, p, slot, length, flags, allocation_type) ==
    IF UsizeGt(v.pages_allocated + length \div PAGE_SIZE, v.vmm_page_count + 1)
    THEN VmErr("OutOfMemory", v, o, t, p)
    ELSE IF v.head # 0
    THEN alloc_found(v, o, m, t, p, slot, length, flags, allocation_type,
                     alloc_find(o, v.head, length, Len(o) + 1))
    ELSE alloc_back([v EXCEPT !.head = slot], alloc_new(o, slot, 0, length, flags, 0, 0),
                    m, t, p, 0, length, flags, allocation_type)

alloc_aligned(v, o, m, t, p, slot, length, flags, allocation_type) ==
    IF UsizeGt(v.pages_allocated + length \div PAGE_SIZE, v.vmm_page_count)
    THEN VmErr("OutOfMemory", v, o, t, p)
    ELSE IF v.head # 0
    THEN alloc_found(v, o, m, t, p, slot, length, flags, allocation_type,
                     alloc_find(o, v.head, length, Len(o) + 1))
    ELSE alloc_back([v EXCEPT !.head = slot], alloc_new(o, slot, 0, length, flags, 0, 0),
                    m, t, p, 0, length, flags, allocation_type)

\* VirtualMemoryManager::alloc; `slot` is the heap cell Box::new returns
alloc(v, o, m, t, p, slot, length, flags, allocation_type) ==
    alloc_aligned(v, o, m, t, p, slot, align_up(length, PAGE_SIZE), flags, allocation_type)

\* free, lines 183-233: the walk to the object whose base is asked for;
\* 0 when the list ends, -1 when the walk never ends
RECURSIVE free_find(_, _, _, _)
free_find(o, current, base, fuel) ==
    IF current = 0 THEN 0
    ELSE IF fuel = 0 THEN -1
    ELSE IF o[current].base = base THEN current
    ELSE free_find(o, o[current].next, base, fuel - 1)

\* free, lines 190-202: unmap and release the pages one by one
RECURSIVE free_pages(_, _, _, _, _, _, _)
free_page_released(m, t, address, page, page_count, mmio, fr) ==
    IF ~fr.ok THEN [ok |-> FALSE, val |-> fr.val, tables |-> t, pmm |-> fr.pmm]
    ELSE free_pages(m, t, fr.pmm, address, page + 1, page_count, mmio)

free_page_unmapped(m, p, address, page, page_count, mmio, u) ==
    IF ~u.some THEN [ok |-> FALSE, val |-> "PageTableManagerError", tables |-> u.tables,
                     pmm |-> p]
    ELSE free_page_released(m, u.tables, address, page, page_count, mmio,
             IF mmio THEN POk("unit", p) ELSE free_frame(p, u.val))

free_pages(m, t, p, address, page, page_count, mmio) ==
    IF page >= page_count THEN [ok |-> TRUE, val |-> "unit", tables |-> t, pmm |-> p]
    ELSE free_page_unmapped(m, p, address, page, page_count, mmio,
             unmap(m, t, VaAdd(address, page * PAGE_SIZE)))

\* free, lines 207-222, the previous object's link and the successor's link
unlink_next(o, cur) ==
    IF o[cur].next # 0 THEN [o EXCEPT ![o[cur].next].prev = o[cur].prev] ELSE o

\* free, lines 204-229: the counter, the unlinking and the dealloc
free_unlink(v, o, t, p, cur, page_count) ==
    IF o[cur].prev # 0
    THEN IF o[o[cur].prev].next = 0
         THEN VmErr("panic", [v EXCEPT !.pages_allocated = @ - page_count], o, t, p)
         ELSE VmOk("unit", [v EXCEPT !.pages_allocated = @ - page_count],
                   dealloc(unlink_next([o EXCEPT ![o[cur].prev].next = o[cur].next], cur),
                           o[o[cur].prev].next),
                   t, p)
    ELSE VmOk("unit", [v EXCEPT !.pages_allocated = @ - page_count, !.head = o[cur].next],
              dealloc(unlink_next(o, cur), v.head), t, p)

free_unmapped(v, o, cur, page_count, unmapped) ==
    IF ~unmapped.ok THEN VmErr(unmapped.val, v, o, unmapped.tables, unmapped.pmm)
    ELSE free_unlink(v, o, unmapped.tables, unmapped.pmm, cur, page_count)

free_at(v, o, m, t, p, address, cur) ==
    IF cur = -1 THEN VmErr("hang", v, o, t, p)
    ELSE IF cur = 0 THEN VmErr("RequestedVmObjectIsNotAllocated", v, o, t, p)
    ELSE free_unmapped(v, o, cur, o[cur].length \div PAGE_SIZE,
             free_pages(m, t, p, address, 0, o[cur].length \div PAGE_SIZE,
                        "MMIO" \in o[cur].flags))

\* VirtualMemoryManager::free
free(v, o, m, t, p, address) ==
    free_at(v, o, m, t, p, address,
            free_find(o, v.head, VaSub(address, v.vmm_start), Len(o) + 1))

(***************************************************************************)
(* The region allocator on the kernel's page tables.  Start: the frame     *)
(* allocator over the boot memory map, the zeroed root table requested by  *)
(* paging::setup, and VirtualMemoryManager::new with an empty list.        *)
(***************************************************************************)
MapVmm ==
    [descriptors |-> << Desc(0, PAGE_SIZE, "Reserved"),
                        Desc(PAGE_SIZE, 11 * PAGE_SIZE, "Available") >>,
     first_addr |-> 0,
     last_addr |-> 11 * PAGE_SIZE]

\* physical address of the device memory mapped by MMIO regions
MmioBase == 32 * PAGE_SIZE

\* the requests made of alloc: a buffer of 1 byte (rounded up to a page) backed
\* by any frames, and a device window of three pages at a fixed address
VmmRequests ==
    {[length |-> 1, flags |-> {"WRITE"},
      allocation_type |-> [type |-> "AnyPages", address |-> 0]],
     [length |-> 3 * PAGE_SIZE, flags |-> {"WRITE", "MMIO"},
      allocation_type |-> [type |-> "Address", address |-> MmioBase]]}
\* addresses handed to free: every page boundary of the window in use
VmmAddrs == {VaAdd(VIRTUAL_VMM_BASE, k * PAGE_SIZE) : k \in 0..VmmPageCount}

Halted ==
    /\ ~ret.ok
    /\ (IF "err" \in DOMAIN ret THEN ret.err ELSE ret.val) \in {"hang", "panic"}

VmmSetup(r) ==
    /\ pmm = r.pmm
    /\ tables = <<>>
    /\ ptm = ptm_new(r.val)
    /\ vmm = vmm_new(VIRTUAL_VMM_BASE, VmmPageCount)
    /\ objs = [i \in 1..MaxVmObjects |-> DeadObj]
    /\ calls = 0
    /\ granted = {}
    /\ NoSched
    /\ ret = NoRet

InitVmm ==
    VmmSetup(request_page(try_new(MapVmm).pmm))

\* The cells a pointer chain from the head or from a live object leads to.
RECURSIVE Reachable(_, _)
Reachable(o, cells) ==
    IF ({o[i].next : i \in cells} \cup {o[i].prev : i \in cells}) \ {0} \subseteq cells
    THEN cells
    ELSE Reachable(o, cells \cup (({o[i].next : i \in cells}
                                      \cup {o[i].prev : i \in cells}) \ {0}))

\* A deallocated cell that no pointer chain leads to is never read again: its
\* contents are dropped.
Forget(head, o) ==
    [i \in DOMAIN o |->
        IF ~o[i].live
           /\ i \notin Reachable(o, ({head} \cup {j \in DOMAIN o : o[j].live}) \ {0})
        THEN DeadObj ELSE o[i]]

\* The cells the heap may return: any deallocated cell that a dangling pointer
\* still leads to, and one of the others (which are indistinguishable).
HeapChoices(o) ==
    {i \in DOMAIN o : ~o[i].live /\ o[i] # DeadObj}
        \cup {i \in DOMAIN o : o[i] = DeadObj /\ \A j \in 1..(i - 1) : o[j] # DeadObj}

\* The caller's view: alloc returning Ok(address) hands out the region at that
\* address with the page-aligned length; free(address) returning Ok takes back
\* the (oldest) region handed out at that address.
Granted(op, arg, r) ==
    IF ~r.ok THEN granted
    ELSE IF op = "alloc"
    THEN granted \cup {[id |-> calls + 1, base |-> VaSub(r.val, vmm.vmm_start),
                        length |-> align_up(arg[1], PAGE_SIZE)]}
    ELSE granted \ {g \in granted :
                       /\ g.base = VaSub(arg[1], vmm.vmm_start)
                       /\ \A h \in granted : h.base = g.base => h.id >= g.id}

VmmStep(op, arg, r) ==
    /\ calls < MaxCalls
    /\ calls' = calls + 1
    /\ granted' = Granted(op, arg, r)
    /\ vmm' = r.vmm
    /\ objs' = Forget(r.vmm.head, r.objs)
    /\ tables' = r.tables
    /\ pmm' = r.pmm
    /\ UNCHANGED <<ptm, schedVars>>
    /\ ret' = [op |-> op, arg |-> arg, ok |-> r.ok, val |-> r.val]

Alloc ==
    /\ ~Halted
    /\ \E req \in VmmRequests, slot \in HeapChoices(objs) :
         VmmStep("alloc", <<req.length, req.flags, req.allocation_type>>,
                 alloc(vmm, objs, ptm, tables, pmm, slot, req.length, req.flags,
                       req.allocation_type))

Free ==
    /\ ~Halted
    /\ \E address \in VmmAddrs :
         VmmStep("free", <<address>>, free(vmm, objs, ptm, tables, pmm, address))

NextVmm ==
    \/ Alloc
    \/ Free

SpecVmm == InitVmm /\ [][NextVmm]_vars



\* two regions share a byte of the window
Overlap(a, b) == a.base < b.base + b.length /\ b.base < a.base + a.length

\* C1: for any sequence of alloc/free calls the regions handed out and not
\* yet freed are disjoint: of any two of them, the one with the lower base ends
\* at or before the base of the other.
C1_NoOverlap ==
    \A g, h \in granted : g # h => ~Overlap(g, h)

RECURSIVE GrantedPages(_)
GrantedPages(gs) ==
    IF gs = {} THEN 0
    ELSE LET g == CHOOSE x \in gs : TRUE
         IN  g.length \div PAGE_SIZE + GrantedPages(gs \ {g})

\* C2: for any sequence of alloc/free calls, after every call that returns
\* normally, the pages of the regions handed out and not yet freed, and the
\* pages_allocated counter, are at most vmm_page_count.
C2_WithinCapacity ==
    ret.ok =>
        /\ GrantedPages(granted) <= vmm.vmm_page_count
        /\ ~UsizeGt(vmm.pages_allocated, vmm.vmm_page_count)

(***************************************************************************)
(*                            TASK SCHEDULER                               *)
(***************************************************************************)
\* number of processes ever created (TaskScheduler::id_counter stops there)
MaxTasks == 3
\* number of threads ever created in one process (thread_id_counter stops there)
MaxTid == 3
\* number of kernel heap cells that can hold a Thread
MaxThreads == 4
\* the timer is followed up to this uptime, in milliseconds
MaxUptime == 2

\* VMM_PAGE_COUNT: usize = PAGE_SIZE * 256
VMM_PAGE_COUNT == PAGE_SIZE * 256
\* THREAD_STACK_SIZE: usize = PAGE_SIZE * 4
THREAD_STACK_SIZE == PAGE_SIZE * 4

\* The kernel state the scheduler works on: its own records and the memory
\* managers below it (the statics SCHEDULER, VMM and PTM).
Kernel(s, pr, th, v, o, m, t, p) ==
    [sched |-> s, procs |-> pr, threads |-> th, vmm |-> v, objs |-> o, ptm |-> m,
     tables |-> t, pmm |-> p]

\* Result<T, SchedulerError> carrying the kernel state after the call; an
\* assertion or unwrap that fails is the error "panic"
SOk(val, k) == [ok |-> TRUE, val |-> val, k |-> k]
SErr(val, k) == [ok |-> FALSE, val |-> val, k |-> k]

\* the state of the memory managers after a call of the region allocator
KVmm(k, r) ==
    [k EXCEPT !.vmm = r.vmm, !.objs = r.objs, !.tables = r.tables, !.pmm = r.pmm]

\* Box::new: the kernel heap hands out its first free cell
FirstFree(cells) ==
    CHOOSE i \in DOMAIN cells : ~cells[i].live /\ \A j \in 1..(i - 1) : cells[j].live

\* VMM.lock().alloc(length, flags, AllocationType::AnyPages)
vmm_alloc(k, length, flags) ==
    alloc(k.vmm, k.objs, k.ptm, k.tables, k.pmm, FirstFree(k.objs), length, flags,
          [type |-> "AnyPages", address |-> 0])

\* VMM.lock().free(address)
vmm_free(k, address) ==
    free(k.vmm, k.objs, k.ptm, k.tables, k.pmm, address)

\* Thread::empty, also what a heap cell not holding a Thread reads as.
\* ThreadStatus::Sleep(t) is status "Sleep" with wake = t.
NoThread ==
    [live |-> FALSE, context |-> 0, stack_start |-> VA(0, 0), tid |-> 0, pid |-> 0,
     status |-> "Dead", wake |-> 0, user |-> FALSE, joins |-> <<>>, next |-> 0, prev |-> 0]

\* Process::empty, also what a heap cell not holding a Process reads as
NoProcess ==
    [live |-> FALSE, page_table_mappings |-> VA(0, 0), update_kernel_mappings |-> TRUE,
     thread_id_counter |-> 0, main_thread |-> 0, active_thread |-> 0, pid |-> 0,
     status |-> "Dead", user |-> FALSE, next |-> 0, prev |-> 0]

\* allocate_stack
allocate_stack(k, user) ==
    vmm_alloc(k, THREAD_STACK_SIZE + 1, IF user THEN {"WRITE", "USER"} ELSE {"WRITE"})

\* Thread::create, lines 50-81: `stack` is the result of allocate_stack; the
\* synthesized CpuState of the thread in cell c is the register state c
thread_create_on(k, cell, tid, pid, user, stack) ==
    IF ~stack.ok THEN SErr(stack.val, KVmm(k, stack))
    ELSE SOk(cell,
             [KVmm(k, stack) EXCEPT !.threads[cell] =
                 [NoThread EXCEPT !.live = TRUE, !.context = cell,
                                  !.stack_start = stack.val, !.tid = tid, !.pid = pid,
                                  !.status = "Ready", !.user = user]])

thread_create(k, tid, pid, user) ==
    thread_create_on(k, FirstFree(k.threads), tid, pid, user, allocate_stack(k, user))

\* the last record of a list of threads (0: the list is empty)
RECURSIVE LastThread(_, _)
LastThread(th, current) ==
    IF current = 0 THEN 0
    ELSE IF th[current].next = 0 THEN current
    ELSE LastThread(th, th[current].next)

\* Process::add_thread, lines 133-164: `created` is the result of Thread::create
add_thread_link(pc, last, created) ==
    IF ~created.ok THEN created
    ELSE IF last = 0
    THEN SOk(created.k.procs[pc].thread_id_counter,
             [created.k EXCEPT !.procs[pc].main_thread = created.val,
                               !.procs[pc].active_thread = created.val])
    ELSE SOk(created.k.procs[pc].thread_id_counter,
             [created.k EXCEPT !.threads[created.val].prev = last,
                               !.threads[last].next = created.val])

add_thread_counted(k, pc) ==
    add_thread_link(pc, LastThread(k.threads, k.procs[pc].main_thread),
        thread_create(k, k.procs[pc].thread_id_counter, k.procs[pc].pid, k.procs[pc].user))

\* Process::add_thread on the process in cell pc; returns the new tid
add_thread(k, pc) ==
    add_thread_counted([k EXCEPT !.procs[pc].thread_id_counter = @ + 1], pc)

\* dst.entries.copy_from_slice(src.entries): the frame dst becomes a copy of src
CopyTable(t, src, dst) ==
    IF src \in DOMAIN t
    THEN [f \in (DOMAIN t) \cup {dst} |-> IF f = dst THEN t[src] ELSE t[f]]
    ELSE ZeroTable(t, dst)

\* copy_higher_half_mappings: src_pml4 is reached through the direct mapping,
\* dst_pml4 is a page of the region allocator's window
copy_higher_half_mappings(k, src_pml4, dst_pml4) ==
    [k EXCEPT !.tables = CopyTable(@, FrameOf(k.ptm, src_pml4),
                                   get_physical(k.ptm, k.tables, dst_pml4).val)]

\* allocate_page_mappings for a TaskEntry::Kernel: `pml4` is the result of alloc
allocate_page_mappings_on(k, pml4) ==
    IF ~pml4.ok THEN SErr(pml4.val, KVmm(k, pml4))
    ELSE SOk(pml4.val,
             copy_higher_half_mappings(KVmm(k, pml4), k.ptm.page_map_level4_virtual,
                                       pml4.val))

allocate_page_mappings(k) ==
    allocate_page_mappings_on(k, vmm_alloc(k, PAGE_SIZE, {"WRITE"}))

\* Process::create, lines 66-83
process_create_threaded(cell, added) ==
    IF ~added.ok THEN added ELSE SOk(cell, added.k)

process_create_in(cell, pid, mappings) ==
    IF ~mappings.ok THEN mappings
    ELSE process_create_threaded(cell,
             add_thread([mappings.k EXCEPT !.procs[cell] =
                            [NoProcess EXCEPT !.live = TRUE, !.pid = pid,
                                              !.status = "Ready",
                                              !.page_table_mappings = mappings.val]],
                        cell))

process_create(k, pid) ==
    process_create_in(FirstFree(k.procs), pid, allocate_page_mappings(k))

\* the last record of the list of processes (0: the list is empty)
RECURSIVE LastProcess(_, _)
LastProcess(pr, current) ==
    IF current = 0 THEN 0
    ELSE IF pr[current].next = 0 THEN current
    ELSE LastProcess(pr, pr[current].next)

\* TaskScheduler::add_task, lines 346-372: `created` is the result of Process::create
add_task_link(last, created) ==
    IF ~created.ok THEN created
    ELSE IF last = 0
    THEN SOk("unit", [created.k EXCEPT !.sched.head = created.val])
    ELSE SOk("unit", [created.k EXCEPT !.procs[created.val].prev = last,
                                       !.procs[last].next = created.val])

add_task(k) ==
    add_task_link(LastProcess(k.procs, k.sched.head),
        process_create([k EXCEPT !.sched.id_counter = @ + 1], k.sched.id_counter + 1))

\* TaskScheduler::try_new: the tasks IDLE and A
try_new_second(first) == IF ~first.ok THEN first ELSE add_task(first.k)
scheduler_try_new(k) == try_new_second(add_task(k))

\* Process::active_thread_ref / active_thread_mut of the active task
ActiveThread(k) == k.procs[k.sched.active_task].active_thread

\* task::spawn_thread: the new thread's id, as the JoinHandle carries it
spawn_thread(k) ==
    IF k.sched.active_task = 0 THEN SErr("panic", k)
    ELSE add_thread(k, k.sched.active_task)

\* task::spawn_process
spawn_process(k) == add_task(k)

\* GlobalTaskScheduler::join
join(k, handle) ==
    IF k.sched.active_task = 0 \/ ActiveThread(k) = 0 THEN SErr("panic", k)
    ELSE SOk("unit", [k EXCEPT !.threads[ActiveThread(k)].joins = Append(@, handle)])

\* kill_active, lines 80-93: no thread of the list from `current` on is another
\* thread than `thread`, alive and joined by it
RECURSIVE can_die_unjoined(_, _, _)
can_die_unjoined(th, thread, current) ==
    IF current = 0 THEN TRUE
    ELSE /\ ~(/\ th[current].tid # th[thread].tid
              /\ th[current].status # "Dead"
              /\ \E i \in DOMAIN th[thread].joins : th[thread].joins[i] = th[current].tid)
         /\ can_die_unjoined(th, thread, th[current].next)

\* kill_active, lines 75-94
can_die_always(k, thread) == TRUE
can_die(k, thread) ==
    \/ k.threads[thread].joins = <<>>
    \/ can_die_unjoined(k.threads, thread, k.procs[k.sched.active_task].main_thread)

\* GlobalTaskScheduler::kill_active, one turn of its loop
kill_active(k) ==
    IF k.sched.active_task = 0 \/ ActiveThread(k) = 0 THEN SErr("panic", k)
    ELSE IF can_die(k, ActiveThread(k)) /\ k.threads[ActiveThread(k)].status # "Dead"
    THEN SOk("unit", [k EXCEPT !.threads[ActiveThread(k)].status = "Dead",
                               !.threads[ActiveThread(k)].wake = 0])
    ELSE SOk("unit", k)

\* GlobalTaskScheduler::sleep is called by main_task but is not part of the
\* sources: the calling (active) thread gets the status Sleeping(wake time)
sleep(k, wake_time_ms) ==
    IF k.sched.active_task = 0 \/ ActiveThread(k) = 0 THEN SErr("panic", k)
    ELSE SOk("unit", [k EXCEPT !.threads[ActiveThread(k)].status = "Sleep",
                               !.threads[ActiveThread(k)].wake = wake_time_ms])

\* Process::is_dead, lines 289-301
RECURSIVE all_dead(_, _)
all_dead(th, next_thread) ==
    IF next_thread = 0 THEN TRUE
    ELSE th[next_thread].status = "Dead" /\ all_dead(th, th[next_thread].next)

is_dead(k, pc) ==
    \/ k.procs[pc].status = "Dead"
    \/ k.threads[k.procs[pc].main_thread].status = "Dead"
    \/ all_dead(k.threads, k.procs[pc].main_thread)

\* get_next_thread, lines 250-254: a sleeper whose time has come is made Ready
wake_up(th, thread, uptime_ms) ==
    IF th[thread].status = "Sleep" /\ uptime_ms >= th[thread].wake
    THEN [th EXCEPT ![thread].status = "Ready", ![thread].wake = 0]
    ELSE th

\* get_next_thread, lines 247-261: the first Ready thread from next_thread on
RECURSIVE next_ready(_, _, _)
next_ready_any(th, next_thread, uptime_ms) ==
    [thread |-> next_thread, threads |-> th]

next_ready_woken(th, next_thread, uptime_ms) ==
    IF th[next_thread].status = "Ready"
    THEN [thread |-> next_thread, threads |-> th]
    ELSE next_ready(th, th[next_thread].next, uptime_ms)

next_ready(th, next_thread, uptime_ms) ==
    IF next_thread = 0 THEN [thread |-> 0, threads |-> th]
    ELSE next_ready_woken(wake_up(th, next_thread, uptime_ms), next_thread, uptime_ms)

\* NextThread::{None, Found}
next_thread_of(found) ==
    [kind |-> IF found.thread = 0 THEN "None" ELSE "Found", thread |-> found.thread,
     threads |-> found.threads]

get_next_thread_from_main(k, pc, uptime_ms) ==
    IF k.procs[pc].status # "Dead" /\ k.procs[pc].main_thread = 0
    THEN [kind |-> "Panic", thread |-> 0, threads |-> k.threads]
    ELSE IF is_dead(k, pc)
    THEN [kind |-> "TaskDead", thread |-> 0, threads |-> k.threads]
    ELSE next_thread_of(next_ready(k.threads, k.procs[pc].main_thread, uptime_ms))

\* Process::get_next_thread of the process in cell pc
get_next_thread(k, pc, uptime_ms) ==
    IF k.procs[pc].status # "Dead" /\ k.procs[pc].main_thread = 0
    THEN [kind |-> "Panic", thread |-> 0, threads |-> k.threads]
    ELSE IF is_dead(k, pc)
    THEN [kind |-> "TaskDead", thread |-> 0, threads |-> k.threads]
    ELSE next_thread_of(next_ready(k.threads, k.threads[k.procs[pc].active_thread].next,
                                   uptime_ms))

\* the cell of the thread / process with the given id in a list (0: not there)
RECURSIVE FindThread(_, _, _)
FindThread(th, current, tid) ==
    IF current = 0 THEN 0
    ELSE IF th[current].tid = tid THEN current
    ELSE FindThread(th, th[current].next, tid)

RECURSIVE FindProcess(_, _, _)
FindProcess(pr, current, id) ==
    IF current = 0 THEN 0
    ELSE IF pr[current].pid = id THEN current
    ELSE FindProcess(pr, pr[current].next, id)

\* remove_thread, lines 193-208: take the record in cell `current` out of the list
unlink_thread(k, pc, current) ==
    IF k.threads[current].prev # 0
    THEN [k EXCEPT !.threads[k.threads[current].prev].next = k.threads[current].next]
    ELSE [k EXCEPT !.procs[pc].main_thread = k.threads[current].next]

unlink_thread_next(k, current) ==
    IF k.threads[current].next # 0
    THEN [k EXCEPT !.threads[k.threads[current].next].prev = k.threads[current].prev]
    ELSE k

\* remove_thread, lines 210-216: joins.take() and dealloc(heap_ptr)
dealloc_thread(k, current, heap_ptr) ==
    [k EXCEPT !.threads = [[@ EXCEPT ![current].joins = <<>>]
                              EXCEPT ![heap_ptr].live = FALSE]]

\* remove_thread, lines 218-229: the stack goes back to the region allocator
remove_thread_freed(k, freed) ==
    IF ~freed.ok THEN SErr(freed.val, KVmm(k, freed)) ELSE SOk("unit", KVmm(k, freed))

remove_thread_free(k, current) ==
    remove_thread_freed(k, vmm_free(k, k.threads[current].stack_start))

remove_thread_found(k, pc, current) ==
    IF current = 0 THEN SErr("ThreadNotFound", k)
    ELSE IF k.threads[current].prev # 0 /\ k.threads[k.threads[current].prev].next = 0
    THEN SErr("panic", k)
    ELSE remove_thread_free(
             dealloc_thread(unlink_thread_next(unlink_thread(k, pc, current), current),
                            current,
                            IF k.threads[current].prev # 0
                            THEN k.threads[k.threads[current].prev].next
                            ELSE k.procs[pc].main_thread),
             current)

\* Process::remove_thread of the process in cell pc
remove_thread(k, pc, tid, force) ==
    IF k.procs[pc].active_thread = 0 THEN SErr("panic", k)
    ELSE IF ~force /\ k.threads[k.procs[pc].active_thread].tid = tid THEN SErr("panic", k)
    ELSE remove_thread_found(k, pc, FindThread(k.threads, k.procs[pc].main_thread, tid))

\* remove_task, lines 415-421: every thread of the list, read on after its removal
RECURSIVE remove_threads(_, _, _)
remove_threads_on_first(pc, current_thread, removed) == removed
remove_threads_on(pc, current_thread, removed) ==
    IF ~removed.ok THEN removed
    ELSE remove_threads(removed.k, pc, removed.k.threads[current_thread].next)

remove_threads(k, pc, current_thread) ==
    IF current_thread = 0 THEN SOk("unit", k)
    ELSE remove_threads_on(pc, current_thread,
             remove_thread(k, pc, k.threads[current_thread].tid, TRUE))

\* remove_task, lines 396-412
unlink_task_as_head(k, current) == [k EXCEPT !.sched.head = k.procs[current].next]
unlink_task(k, current) ==
    IF k.procs[current].prev # 0
    THEN [k EXCEPT !.procs[k.procs[current].prev].next = k.procs[current].next]
    ELSE [k EXCEPT !.sched.head = k.procs[current].next]

unlink_task_next(k, current) ==
    IF k.procs[current].next # 0
    THEN [k EXCEPT !.procs[k.procs[current].next].prev = k.procs[current].prev]
    ELSE k

\* remove_task, lines 423-439: dealloc(heap_ptr), then the page tables are freed
remove_task_freed(k, freed) ==
    IF ~freed.ok THEN SErr(freed.val, KVmm(k, freed)) ELSE SOk("unit", KVmm(k, freed))

remove_task_free(k, current) ==
    remove_task_freed(k, vmm_free(k, k.procs[current].page_table_mappings))

remove_task_threads(current, heap_ptr, removed) ==
    IF ~removed.ok THEN removed
    ELSE remove_task_free([removed.k EXCEPT !.procs[heap_ptr].live = FALSE], current)

remove_task_found(k, current) ==
    IF current = 0 THEN SErr("TaskNotFound", k)
    ELSE IF k.procs[current].prev # 0 /\ k.procs[k.procs[current].prev].next = 0
    THEN SErr("panic", k)
    ELSE remove_task_threads(current,
             IF k.procs[current].prev # 0 THEN k.procs[k.procs[current].prev].next
             ELSE k.sched.head,
             remove_threads(unlink_task_next(unlink_task(k, current), current), current,
                            k.procs[current].main_thread))

\* TaskScheduler::remove_task
remove_task(k, id) ==
    IF \/ k.sched.active_task = 0
       \/ k.procs[k.sched.active_task].pid = id
       \/ k.sched.head = 0
       \/ k.procs[k.sched.head].pid = id
    THEN SErr("panic", k)
    ELSE remove_task_found(k, FindProcess(k.procs, k.sched.head, id))

\* get_next_process, lines 327-331
next_in_ring(k, current) ==
    IF k.procs[current].next # 0 THEN k.procs[current].next ELSE k.sched.head

\* get_next_process, lines 312-332; the walk ends within one turn of the ring
\* unless no process of it is Ready or the active one
RECURSIVE ring_walk(_, _, _, _)
ring_walk_removed(pid, current, fuel, removed) ==
    IF ~removed.ok THEN SErr("panic", removed.k)
    ELSE ring_walk(removed.k, pid, next_in_ring(removed.k, current), fuel - 1)

ring_walk_past_active(k, pid, current, fuel) ==
    IF current = 0 THEN SOk(0, k)
    ELSE IF fuel = 0 THEN SErr("hang", k)
    ELSE IF k.procs[current].status = "Ready" THEN SOk(current, k)
    ELSE IF k.procs[current].status = "Dead"
    THEN ring_walk_removed(pid, current, fuel, remove_task(k, k.procs[current].pid))
    ELSE ring_walk(k, pid, next_in_ring(k, current), fuel - 1)

ring_walk(k, pid, current, fuel) ==
    IF current = 0 THEN SOk(0, k)
    ELSE IF fuel = 0 THEN SErr("hang", k)
    ELSE IF k.procs[current].pid = pid \/ k.procs[current].status = "Ready"
    THEN SOk(current, k)
    ELSE IF k.procs[current].status = "Dead"
    THEN ring_walk_removed(pid, current, fuel, remove_task(k, k.procs[current].pid))
    ELSE ring_walk(k, pid, next_in_ring(k, current), fuel - 1)

\* TaskScheduler::get_next_process
get_next_process(k, active_task) ==
    ring_walk(k, k.procs[active_task].pid, next_in_ring(k, active_task),
              Len(k.procs) + 1)

\* PageTableManager: the root table is replaced (update_pml4_physical/_virtual)
update_pml4(m, new_address) ==
    [m EXCEPT !.page_map_level4_physical = new_address,
              !.page_map_level4_virtual = new_address + m.offset]

\* switch_processes, lines 281-298: the next task's tables become the active ones
switch_tables(k, next, new_mappings) ==
    IF ~new_mappings.some \/ k.procs[next].main_thread = 0 THEN SErr("panic", k)
    ELSE SOk(k.threads[k.procs[next].main_thread].context,
             [k EXCEPT !.ptm = update_pml4(@, new_mappings.val)])

switch_mapped(k, next) ==
    switch_tables(k, next, get_physical(k.ptm, k.tables, k.procs[next].page_table_mappings))

\* switch_processes, lines 254-280
switch_to(k, active_task, next) ==
    switch_mapped(
        IF k.procs[active_task].update_kernel_mappings
        THEN copy_higher_half_mappings(k, k.ptm.page_map_level4_virtual,
                                       k.procs[next].page_table_mappings)
        ELSE k,
        next)

switch_found(active_task, context, next) ==
    IF ~next.ok THEN next
    ELSE IF next.val = 0 THEN SOk(context, next.k)
    ELSE switch_to([[next.k EXCEPT !.procs[active_task].status =
                                       IF @ # "Dead" THEN "Ready" ELSE @]
                       EXCEPT !.procs[next.val].status = "Running",
                              !.sched.active_task = next.val],
                   active_task, next.val)

\* TaskScheduler::switch_processes
switch_processes(k, active_task, context) ==
    switch_found(active_task, context, get_next_process(k, active_task))

save_state_always(th, thread, context) ==
    [th EXCEPT ![thread].context = context, ![thread].status = "Ready", ![thread].wake = 0]

\* schedule, lines 191-195 and 208-212: the state of the thread that ran is kept
save_state(th, thread, context) ==
    IF th[thread].status # "Dead"
    THEN [th EXCEPT ![thread].context = context, ![thread].status = "Ready",
                    ![thread].wake = 0]
    ELSE th

\* schedule, lines 206-222
schedule_found(k, active_task, context, next) ==
    SOk(next.threads[next.thread].context,
        [k EXCEPT !.threads = [save_state(next.threads, k.procs[active_task].active_thread,
                                          context)
                                  EXCEPT ![next.thread].status = "Running"],
                  !.procs[active_task].active_thread = next.thread])

schedule_none_unsaved(k, active_task, context, next) ==
    IF next.kind = "None"
    THEN [k EXCEPT !.threads = next.threads,
                   !.procs[active_task].active_thread = k.procs[active_task].main_thread]
    ELSE [k EXCEPT !.procs[active_task].status = "Dead"]

\* schedule, lines 189-204
schedule_none(k, active_task, context, next) ==
    IF next.kind = "None"
    THEN [k EXCEPT !.threads = save_state(next.threads, k.procs[active_task].active_thread,
                                          context),
                   !.procs[active_task].active_thread = k.procs[active_task].main_thread]
    ELSE [k EXCEPT !.procs[active_task].status = "Dead"]

schedule_next(k, active_task, context, next) ==
    IF next.kind = "Panic" THEN SErr("panic", k)
    ELSE IF next.kind = "Found" THEN schedule_found(k, active_task, context, next)
    ELSE switch_processes(schedule_none(k, active_task, context, next), active_task,
                          context)

schedule_first_ready(k) ==
    IF k.sched.head = 0 \/ k.procs[k.sched.head].main_thread = 0 THEN SErr("panic", k)
    ELSE SOk(k.threads[k.procs[k.sched.head].main_thread].context,
             [k EXCEPT !.procs[k.sched.head].status = "Running",
                       !.procs[k.sched.head].active_thread =
                           k.procs[k.sched.head].main_thread,
                       !.sched.active_task = k.sched.head])

\* schedule, lines 227-239: the first call starts the IDLE task
schedule_first(k) ==
    IF k.sched.head = 0 \/ k.procs[k.sched.head].main_thread = 0 THEN SErr("panic", k)
    ELSE SOk(k.threads[k.procs[k.sched.head].main_thread].context,
             [k EXCEPT !.procs[k.sched.head].status = "Running",
                       !.procs[k.sched.head].active_thread =
                           k.procs[k.sched.head].main_thread,
                       !.threads[k.procs[k.sched.head].main_thread].status = "Running",
                       !.sched.active_task = k.sched.head])

\* TaskScheduler::schedule, called as perform_context_switch calls it; the
\* uptime reaches Process::get_next_thread(uptime)
schedule(k, context, uptime_ms) ==
    IF k.sched.active_task # 0
    THEN schedule_next(k, k.sched.active_task, context,
                       get_next_thread(k, k.sched.active_task, uptime_ms))
    ELSE schedule_first(k)

(***************************************************************************)
(* The scheduler on the booted kernel.  Start: memory::setup has built the *)
(* frame allocator, the root table and the region allocator, mapped the    *)
(* framebuffer and made its test allocation; scheduling::set_up has run    *)
(* TaskScheduler::try_new.  Then the timer interrupts the running thread   *)
(* at any point, and the running thread calls the scheduler's operations   *)
(* in any order until it calls kill_active.                                *)
(***************************************************************************)
\* frames of the boot memory map: enough for every stack and table ever made
SchedMemPages == 8 + 4 * MaxTasks + 5 * MaxTasks * MaxTid
MapSched ==
    [descriptors |-> << Desc(0, PAGE_SIZE, "Reserved"),
                        Desc(PAGE_SIZE, SchedMemPages * PAGE_SIZE, "Available") >>,
     first_addr |-> 0,
     last_addr |-> SchedMemPages * PAGE_SIZE]

\* physical address of the framebuffer (device memory above the RAM)
FramebufferBase == 1024 * PAGE_SIZE

\* The page of a user program: its virtual address below the kernel half
\* (0x1000000), the frame that holds it and the flags it is mapped with.
UserVA == VA(0, 4096 * PAGE_SIZE)
UserFrame == 1032 * PAGE_SIZE
UserFlags == {"PRESENT", "READ_WRITE", "USER_SUPER"}

\* sleep(ms): the durations asked for
SleepTimes == {1, 2}

\* memory::setup, lines 27-43: `root` is the frame requested for the root table
boot_paging(root) ==
    Kernel([head |-> 0, active_task |-> 0, id_counter |-> 0],
           [i \in 1..MaxTasks |-> NoProcess],
           [i \in 1..MaxThreads |-> NoThread],
           vmm_new(VIRTUAL_VMM_BASE, VMM_PAGE_COUNT),
           [i \in 1..(MaxTasks + MaxThreads + 2) |-> DeadObj],
           ptm_new(root.val), <<>>, root.pmm)

\* memory::mmio: the framebuffer, three pages of it
boot_mmio(k) ==
    KVmm(k, alloc(k.vmm, k.objs, k.ptm, k.tables, k.pmm, FirstFree(k.objs),
                  3 * PAGE_SIZE, {"MMIO", "WRITE"},
                  [type |-> "Address", address |-> FramebufferBase]))

\* memory::setup, lines 50-53: alloc(0x932, ..) and free of the buffer
boot_buffer_freed(k, address) == KVmm(k, vmm_free(k, address))
boot_buffer(k, page_sized_buffer) ==
    boot_buffer_freed(KVmm(k, page_sized_buffer), page_sized_buffer.val)
boot_test(k) == boot_buffer(k, vmm_alloc(k, 2354, {"WRITE"}))

memory_setup == boot_test(boot_mmio(boot_paging(request_page(try_new(MapSched).pmm))))

\* Observation of one process over three successive calls of schedule, from a
\* state in which it has a main thread and two more threads, both Ready:
\* `tids` are its threads, `ran` those of them that have had the status
\* Running since. Any other operation ends the observation.
NoWatch == [pid |-> 0, calls |-> 0, tids |-> {}, ran |-> {}]

ThreadsOf(th, pid) == {c \in DOMAIN th : th[c].live /\ th[c].pid = pid}

RunningTids(th, pid) ==
    {th[c].tid : c \in {d \in ThreadsOf(th, pid) : th[d].status = "Running"}}

MainAndTwoReady(pr, th, c) ==
    /\ pr[c].live
    /\ pr[c].status # "Dead"
    /\ pr[c].main_thread # 0
    /\ th[pr[c].main_thread].status \in {"Ready", "Running"}
    /\ Cardinality(ThreadsOf(th, pr[c].pid)) = 3
    /\ \A t \in ThreadsOf(th, pr[c].pid) \ {pr[c].main_thread} : th[t].status = "Ready"

WatchStart(pr, th) ==
    IF \E c \in DOMAIN pr : MainAndTwoReady(pr, th, c)
    THEN LET c == CHOOSE d \in DOMAIN pr :
                      /\ MainAndTwoReady(pr, th, d)
                      /\ \A e \in DOMAIN pr : MainAndTwoReady(pr, th, e) => pr[d].pid <= pr[e].pid
         IN  [pid |-> pr[c].pid, calls |-> 0,
              tids |-> {th[t].tid : t \in ThreadsOf(th, pr[c].pid)},
              ran |-> RunningTids(th, pr[c].pid)]
    ELSE NoWatch

WatchNext(w, op, pr, th) ==
    IF \/ w.pid = 0 \/ w.calls >= 3 \/ op # "schedule"
       \/ ~\E c \in DOMAIN pr : pr[c].live /\ pr[c].pid = w.pid
    THEN WatchStart(pr, th)
    ELSE [w EXCEPT !.calls = @ + 1,
                   !.ran = @ \cup RunningTids(th, w.pid)]

KNow == Kernel(sched, procs, threads, vmm, objs, ptm, tables, pmm)

\* a thread's place in its entry function: "hlt" in idle's hlt_loop, "run"
\* before its call of kill_active, "kill" inside the loop of kill_active
NoClient == [phase |-> "none", handles |-> {}]

SchedSetup(k) ==
    /\ sched = k.sched
    /\ procs = k.procs
    /\ threads = k.threads
    /\ vmm = k.vmm
    /\ objs = k.objs
    /\ ptm = k.ptm
    /\ tables = k.tables
    /\ pmm = k.pmm
    /\ calls = 0
    /\ granted = {}
    /\ uptime = 0
    /\ cpu = 0
    /\ client = [c \in DOMAIN k.threads |->
                    IF ~k.threads[c].live THEN NoClient
                    ELSE [phase |-> IF k.threads[c].pid = k.procs[k.sched.head].pid
                                    THEN "hlt" ELSE "run",
                          handles |-> {}]]
    /\ watch = NoWatch
    /\ locks = <<>>
    /\ trap = [c \in DOMAIN k.threads |-> 0]
    /\ ret = NoRet

InitSched == SchedSetup(scheduler_try_new(memory_setup).k)

\* Records of deallocated cells that no pointer leads to are never read again.
ForgetProcs(k) ==
    [i \in DOMAIN k.procs |->
        IF ~k.procs[i].live
           /\ i \notin Reachable(k.procs,
                                 ({k.sched.head, k.sched.active_task}
                                     \cup {j \in DOMAIN k.procs : k.procs[j].live}) \ {0})
        THEN NoProcess ELSE k.procs[i]]

ForgetThreads(pr, th) ==
    [i \in DOMAIN th |->
        IF ~th[i].live
           /\ i \notin Reachable(th,
                                 ({pr[j].main_thread : j \in DOMAIN pr}
                                     \cup {pr[j].active_thread : j \in DOMAIN pr}
                                     \cup {j \in DOMAIN th : th[j].live}) \ {0})
        THEN NoThread ELSE th[i]]

\* what the running thread keeps of the call it made
ClientAfter(op, arg, r) ==
    [c \in DOMAIN client |->
        IF c # cpu THEN client[c]
        ELSE IF op = "spawn_thread" /\ r.ok
        THEN [client[c] EXCEPT !.handles = @ \cup {r.val}]
        ELSE IF op = "join" THEN [client[c] EXCEPT !.handles = @ \ {arg}]
        ELSE IF op = "kill_active" THEN [phase |-> "kill", handles |-> {}]
        ELSE client[c]]

ClientCells(cl, old, new) ==
    [c \in DOMAIN cl |->
        IF ~new[c].live THEN NoClient
        ELSE IF ~old[c].live THEN [phase |-> "run", handles |-> {}]
        ELSE cl[c]]

SchedStepOn(op, arg, r, on, tr) ==
    /\ sched' = r.k.sched
    /\ procs' = ForgetProcs(r.k)
    /\ threads' = ForgetThreads(ForgetProcs(r.k), r.k.threads)
    /\ vmm' = r.k.vmm
    /\ objs' = Forget(r.k.vmm.head, r.k.objs)
    /\ ptm' = r.k.ptm
    /\ tables' = r.k.tables
    /\ pmm' = r.k.pmm
    /\ cpu' = on
    /\ client' = ClientCells(ClientAfter(op, arg, r), threads, threads')
    /\ watch' = WatchNext(watch, op, procs', threads')
    /\ trap' = [c \in DOMAIN tr |-> IF threads[c].live /\ threads'[c].live THEN tr[c] ELSE 0]
    /\ UNCHANGED <<granted, locks>>
    /\ ret' = [op |-> op, arg |-> arg, ok |-> r.ok,
               val |-> IF op = "schedule" /\ r.ok THEN r.val ELSE 0,
               err |-> IF r.ok THEN "none" ELSE r.val,
               reaped |-> {procs[c].pid : c \in {d \in DOMAIN procs : procs[d].live}}
                              \ {r.k.procs[c].pid :
                                     c \in {d \in DOMAIN procs : r.k.procs[d].live}},
               freed |-> vmm.pages_allocated - r.k.vmm.pages_allocated,
               was |-> IF cpu # 0 THEN threads[cpu].status ELSE "none"]

\* a kernel call or a timer tick whose trap context is the interrupted thread's
\* cell: the processor goes on with the thread whose state schedule returned
SchedStep(op, arg, r) ==
    /\ SchedStepOn(op, arg, r, IF op = "schedule" /\ r.ok THEN r.val ELSE cpu, trap)
    /\ UNCHANGED calls

\* the thread on the processor is in its entry function and not asleep
Runs ==
    /\ ~Halted
    /\ cpu # 0
    /\ threads[cpu].live
    /\ client[cpu].phase = "run"
    /\ threads[cpu].status # "Sleep"

\* pit_handler: tick, perform_context_switch, and the processor resumes the
\* state schedule returns
Tick ==
    /\ ~Halted
    /\ \E u \in {uptime, uptime + 1} :
         /\ u <= MaxUptime
         /\ uptime' = u
         /\ SchedStep("schedule", u, schedule(KNow, cpu, u))

SpawnThread ==
    /\ Runs
    /\ procs[sched.active_task].thread_id_counter < MaxTid
    /\ \E c \in DOMAIN threads : ~threads[c].live
    /\ UNCHANGED uptime
    /\ SchedStep("spawn_thread", 0, spawn_thread(KNow))

SpawnProcess ==
    /\ Runs
    /\ sched.id_counter < MaxTasks
    /\ \E c \in DOMAIN threads : ~threads[c].live
    /\ UNCHANGED uptime
    /\ SchedStep("spawn_process", 0, spawn_process(KNow))

Join ==
    /\ Runs
    /\ UNCHANGED uptime
    /\ \E handle \in client[cpu].handles :
         SchedStep("join", handle, join(KNow, handle))

KillActive ==
    /\ ~Halted
    /\ cpu # 0
    /\ threads[cpu].live
    /\ client[cpu].phase \in {"run", "kill"}
    /\ threads[cpu].status # "Sleep"
    /\ UNCHANGED uptime
    /\ SchedStep("kill_active", 0, kill_active(KNow))

Sleep ==
    /\ Runs
    /\ UNCHANGED uptime
    /\ \E ms \in SleepTimes :
         SchedStep("sleep", uptime + ms, sleep(KNow, uptime + ms))

\* A thread maps its user program into the active table through the global
\* page table manager, as map_user_process_from_active expects of the caller
\* of spawn_process(TaskEntry::User(..)): manager.map_memory(virt, phys, flags)
map_user_mapped(k, r) ==
    IF ~r.ok THEN SErr(r.val, [k EXCEPT !.pmm = r.pmm, !.tables = r.tables])
    ELSE SOk("unit", [k EXCEPT !.pmm = r.pmm, !.tables = r.tables])

map_user(k) ==
    map_user_mapped(k, map_memory(k.ptm, k.tables, k.pmm, UserVA, UserFrame, UserFlags))

MapUser ==
    /\ Runs
    /\ ~get_entry_data(ptm, tables, UserVA).some
    /\ UNCHANGED uptime
    /\ SchedStep("map_user", 0, map_user(KNow))

NextSched ==
    \/ MapUser
    \/ Tick
    \/ SpawnThread
    \/ SpawnProcess
    \/ Join
    \/ KillActive
    \/ Sleep

SpecSched == InitSched /\ [][NextSched]_vars

(***************************************************************************)
(* The scheduler with the trap frames told apart.  isr.rs hands schedule   *)
(* the address of the CpuState the interrupt stub has just pushed; two     *)
(* successive frames of one thread are different snapshots, so the frame   *)
(* of thread cell c alternates between the values TrapContext(c, 1) and    *)
(* TrapContext(c, 2), and c itself is the state Thread::create made up.    *)
(***************************************************************************)
TrapVersions == 2
TrapContext(c, n) == c + MaxThreads * n
\* the thread a register state belongs to
ContextThread(x) == ((x - 1) % MaxThreads) + 1
\* the snapshot that follows snapshot x of thread c
NextContext(c, x) ==
    IF x = 0 THEN TrapContext(c, 1)
    ELSE TrapContext(c, (((x - 1) \div MaxThreads) % TrapVersions) + 1)

\* perform_context_switch: schedule gets the frame of the interrupted thread,
\* keeps it unless that thread is Dead, and the stub restores the frame returned
TrapStep(u, context, r) ==
    /\ SchedStepOn("schedule", u, r,
                   IF r.ok THEN ContextThread(r.val) ELSE cpu,
                   IF cpu # 0 /\ threads[cpu].status # "Dead"
                   THEN [trap EXCEPT ![cpu] = context] ELSE trap)
    /\ UNCHANGED calls

TickTrap ==
    /\ ~Halted
    /\ \E u \in {uptime, uptime + 1} :
         /\ u <= MaxUptime
         /\ uptime' = u
         /\ TrapStep(u, IF cpu = 0 THEN 0 ELSE NextContext(cpu, trap[cpu]),
                     schedule(KNow, IF cpu = 0 THEN 0 ELSE NextContext(cpu, trap[cpu]), u))

NextTrap ==
    \/ TickTrap
    \/ SpawnThread
    \/ SpawnProcess
    \/ Join
    \/ KillActive
    \/ Sleep

SpecTrap == InitSched /\ [][NextTrap]_vars

(***************************************************************************)
(* The scheduler under a timer that keeps interrupting: pit_handler runs   *)
(* again and again for as long as the kernel has not stopped, and a thread *)
(* that is in the loop of kill_active makes a turn of it whenever it has   *)
(* the processor.  `calls` counts the calls of schedule modulo 2 in its    *)
(* bit 0 and the turns of kill_active modulo 2 in its bit 1, so that each  *)
(* of them is a step that changes it.                                      *)
(***************************************************************************)
TickCounted(u, r) ==
    /\ calls' = 2 * (calls \div 2) + (1 - (calls % 2))
    /\ SchedStepOn("schedule", u, r, IF r.ok THEN r.val ELSE cpu, trap)

TickFair ==
    /\ ~Halted
    /\ \E u \in {uptime, uptime + 1} :
         /\ u <= MaxUptime
         /\ uptime' = u
         /\ TickCounted(u, schedule(KNow, cpu, u))

\* a turn of the loop of kill_active, lines 66-101
KillFair ==
    /\ ~Halted
    /\ cpu # 0
    /\ threads[cpu].live
    /\ client[cpu].phase \in {"run", "kill"}
    /\ threads[cpu].status # "Sleep"
    /\ UNCHANGED uptime
    /\ calls' = (calls + 2) % 4
    /\ SchedStepOn("kill_active", 0, kill_active(KNow), cpu, trap)

\* a JoinHandle is a value: the thread that holds it can leave it to another
\* thread of its process, which then is the one that can join with it
HandOver ==
    /\ Runs
    /\ \E h \in client[cpu].handles :
         \E d \in DOMAIN threads :
            /\ d # cpu
            /\ threads[d].live
            /\ threads[d].pid = threads[cpu].pid
            /\ client[d].phase = "run"
            /\ client' = [client EXCEPT ![cpu].handles = @ \ {h},
                                        ![d].handles = @ \cup {h}]
    /\ UNCHANGED <<pmm, tables, ptm, vmm, objs, calls, granted, sched, procs, threads,
                   uptime, cpu, watch, locks, trap, ret>>

NextFair ==
    \/ TickFair
    \/ SpawnThread
    \/ SpawnProcess
    \/ Join
    \/ KillActive
    \/ Sleep

\* the interrupt is taken whenever the kernel has not stopped
TimerFires == ~Halted /\ calls' = 2 * (calls \div 2) + (1 - (calls % 2))

\* between two interrupts the thread of cell c, when it is in the loop of
\* kill_active and has the processor, has the time for a turn of the loop
LoopTurns(c) ==
    /\ ~Halted
    /\ cpu = c
    /\ threads[c].live
    /\ client[c].phase = "kill"
    /\ calls' = (calls + 2) % 4

SpecFair == InitSched /\ [][NextFair]_vars /\ WF_calls(TimerFires)

\* the threads of the main task spawn, join and end under that timer
NextJoin ==
    \/ TickFair
    \/ SpawnThread
    \/ HandOver
    \/ Join
    \/ KillFair

SpecJoin ==
    /\ InitSched /\ [][NextJoin]_vars
    /\ WF_calls(TimerFires)
    /\ \A c \in 1..MaxThreads : SF_calls(LoopTurns(c))

\* the threads of c's process that c has joined
JoinedBy(th, c) ==
    {d \in DOMAIN th :
        /\ th[d].live /\ th[d].pid = th[c].pid /\ d # c
        /\ \E i \in DOMAIN th[c].joins : th[c].joins[i] = th[d].tid}

\* C6: a thread becomes Dead only by its own call of kill_active, and only in
\* a state in which every thread of its process whose id is in its join-set is
\* already Dead; so whenever a thread is Dead the threads it joined are Dead:
\* with A having joined B, B's transition to Dead comes strictly before A's,
\* however the timer ticks interleave.
C6_KillAfterJoined ==
    [][\A c \in DOMAIN threads :
          /\ (/\ threads[c].live /\ threads[c].status # "Dead"
              /\ threads'[c].live /\ threads'[c].status = "Dead")
                 => /\ ret'.op = "kill_active"
                    /\ c = cpu
                    /\ \A d \in JoinedBy(threads, c) : threads[d].status = "Dead"
          /\ (threads'[c].live /\ threads'[c].status = "Dead")
                 => \A d \in JoinedBy(threads', c) : threads'[d].status = "Dead"]_vars

\* C6 witness: a thread that had joined two threads of its process has just
\* been marked Dead by kill_active, both joined threads being Dead
C6_Witness ==
    /\ ret.op = "kill_active" /\ ret.was # "Dead"
    /\ cpu # 0 /\ threads[cpu].live /\ threads[cpu].status = "Dead"
    /\ Len(threads[cpu].joins) = 2
    /\ Cardinality(JoinedBy(threads, cpu)) = 2
    /\ \A d \in JoinedBy(threads, cpu) : threads[d].status = "Dead"

\* C7: a thread with status Sleeping(t) keeps that status, and is not the
\* thread schedule resumes, as long as the uptime is below t: no operation
\* other than a schedule call with uptime >= t ends its sleep; and a schedule
\* call with uptime >= t makes it Ready (selectable).
C7_SleepGating ==
    [][\A c \in DOMAIN threads :
          (threads[c].live /\ threads[c].status = "Sleep" /\ threads'[c].live)
              => /\ threads'[c].status # "Sleep"
                     => (ret'.op = "schedule" /\ uptime' >= threads[c].wake)
                 /\ (ret'.op = "schedule" /\ uptime' < threads[c].wake)
                     => (cpu' # c /\ threads'[c].status = "Sleep")
                 /\ (ret'.op = "schedule" /\ uptime' >= threads[c].wake)
                     => threads'[c].status \in {"Ready", "Running"}]_vars

\* C8: round-robin fairness: from a state in which a process has a main
\* thread and two more threads, both Ready, every one of the three threads
\* has had the status Running by the time schedule has been called 3 times.
C8_RoundRobin ==
    (watch.pid # 0 /\ watch.calls = 3) => watch.tids \subseteq watch.ran

\* the Dead processes a walk of the ring meets, from `current` on, before it
\* finds a Ready process or is back at the active one (the process `pid`)
RECURSIVE DeadReached(_, _, _, _, _)
DeadReached(pr, head, pid, current, fuel) ==
    IF current = 0 \/ fuel = 0 \/ pr[current].pid = pid \/ pr[current].status = "Ready"
    THEN {}
    ELSE (IF pr[current].status = "Dead" THEN {current} ELSE {})
             \cup DeadReached(pr, head, pid,
                              IF pr[current].next # 0 THEN pr[current].next ELSE head,
                              fuel - 1)

\* the ids of the processes of the ring
RECURSIVE RingPids(_, _, _)
RingPids(pr, current, fuel) ==
    IF current = 0 \/ fuel = 0 THEN {}
    ELSE {pr[current].pid} \cup RingPids(pr, pr[current].next, fuel - 1)

\* the regions a process owns: its page-table region and its threads' stacks
RegionsOf(pr, th, v, c) ==
    {VaSub(pr[c].page_table_mappings, v.vmm_start)}
        \cup {VaSub(th[t].stack_start, v.vmm_start) : t \in ThreadsOf(th, pr[c].pid)}

\* the pages of the regions of the allocator's list whose base is in `bases`
RECURSIVE PagesOf(_, _, _)
PagesOf(o, bases, i) ==
    IF i > Len(o) THEN 0
    ELSE (IF o[i].live /\ o[i].base \in bases THEN o[i].length \div PAGE_SIZE ELSE 0)
             + PagesOf(o, bases, i + 1)

\* C9: reclamation: a schedule call that walks the ring removes every Dead
\* process the walk reaches from the ring and frees its page-table region and
\* the stack regions of all its threads, and the region allocator's count of
\* allocated pages goes down by exactly the pages of those regions.
C9_Reclamation ==
    [][(/\ ret'.op = "schedule"
        /\ sched.active_task # 0
        /\ get_next_thread(KNow, sched.active_task, uptime').kind \in {"None", "TaskDead"})
          => LET reached == DeadReached(procs, sched.head, procs[sched.active_task].pid,
                                        next_in_ring(KNow, sched.active_task),
                                        Len(procs) + 1)
                 regions == UNION {RegionsOf(procs, threads, vmm, c) : c \in reached}
             IN  /\ ret'.ok
                 /\ \A c \in reached :
                       procs[c].pid \notin RingPids(procs', sched'.head, Len(procs) + 1)
                 /\ \A i \in DOMAIN objs' : objs'[i].live => objs'[i].base \notin regions
                 /\ \A c \in reached : Cardinality(RegionsOf(procs, threads, vmm, c))
                                          = 1 + Cardinality(ThreadsOf(threads, procs[c].pid))
                 /\ vmm'.pages_allocated
                        = vmm.pages_allocated - PagesOf(objs, regions, 1)]_vars

\* C9 witness: schedule has just reaped a Dead process with at least two
\* threads: 11 pages or more went back to the region allocator
C9_Witness ==
    /\ ret.op = "schedule" /\ ret.ok
    /\ ret.reaped # {}
    /\ ret.freed >= 11
    /\ \A c \in DOMAIN procs : procs[c].live => procs[c].pid \notin ret.reaped

\* C10: a process is marked Dead, and is reaped, only when every one of its
\* threads is Dead: no process with a Ready, Running or Sleeping thread gets
\* the status Dead or is removed.
C10_DeadOnlyWhenAllThreadsDead ==
    [][\A c \in DOMAIN procs :
          (/\ procs[c].live
           /\ \/ ~procs'[c].live
              \/ procs'[c].status = "Dead")
              => \A t \in ThreadsOf(threads, procs[c].pid) : threads[t].status = "Dead"]_vars

(***************************************************************************)
(* The spin locks of the kernel's globals on one processor.  Thread code   *)
(* and the timer's interrupt handler are sequences of lock, unlock and     *)
(* interrupt-flag instructions, in the order the source executes them; a   *)
(* timer interrupt arrives between any two instructions of a thread while  *)
(* the interrupt flag is set.                                              *)
(***************************************************************************)
LockNames == {"SCHEDULER", "VMM", "PTM", "ALLOCATOR", "WRITER", "PIT"}

\* threads that exist; context 0 is the interrupt handler
LockThreads == 2

\* SpinLock::lock, Guard::drop / SpinLock::unlock
Lock(l) == [i |-> "lock", l |-> l]
Unlock(l) == [i |-> "unlock", l |-> l]
\* without_interrupts: its entry (are_enabled, disable) and its exit (enable)
WithoutBegin == [i |-> "without_begin", l |-> ""]
WithoutEnd == [i |-> "without_end", l |-> ""]
\* the return of the interrupt handler into the context schedule has chosen
Iret == [i |-> "iret", l |-> ""]

without_interrupts(f) == <<WithoutBegin>> \o f \o <<WithoutEnd>>

\* GlobalAlloc::alloc and ::dealloc of the kernel heap
heap_alloc == <<Lock("ALLOCATOR"), Unlock("ALLOCATOR")>>
heap_dealloc == <<Lock("ALLOCATOR"), Unlock("ALLOCATOR")>>

\* _print
print_locks == without_interrupts(<<Lock("WRITER"), Unlock("WRITER")>>)

\* VirtualMemoryManager::alloc: the manager's lock around the new VmObject
vmm_alloc_locks == <<Lock("PTM")>> \o heap_alloc \o <<Unlock("PTM")>>
\* VirtualMemoryManager::free
vmm_free_locks == <<Lock("PTM")>> \o heap_dealloc \o <<Unlock("PTM")>>

\* allocate_stack
allocate_stack_locks == <<Lock("VMM")>> \o vmm_alloc_locks \o <<Unlock("VMM")>>

\* Thread::create: the stack, then the boxes of the CpuState and the Thread
thread_create_locks == allocate_stack_locks \o heap_alloc \o heap_alloc

\* Process::add_thread: the name is formatted before Thread::create
add_thread_locks == heap_alloc \o thread_create_locks

\* allocate_page_mappings: both guards live to the end of the function
allocate_page_mappings_locks ==
    <<Lock("VMM")>> \o vmm_alloc_locks
        \o <<Lock("PTM"), Unlock("PTM"), Lock("PTM")>>
        \o print_locks \o print_locks
        \o <<Unlock("PTM"), Unlock("VMM")>>

\* Process::create
process_create_locks == allocate_page_mappings_locks \o heap_alloc \o add_thread_locks

\* TaskScheduler::add_task
add_task_locks == heap_alloc \o process_create_locks

\* task::spawn_thread, task::spawn_process
spawn_thread_locks ==
    without_interrupts(<<Lock("SCHEDULER")>> \o add_thread_locks
                           \o <<Unlock("SCHEDULER")>>)
spawn_process_locks ==
    without_interrupts(<<Lock("SCHEDULER")>> \o add_task_locks
                           \o <<Unlock("SCHEDULER")>>)

\* GlobalTaskScheduler::join: the handle is pushed to the vector of joins
join_locks ==
    without_interrupts(<<Lock("SCHEDULER")>> \o heap_alloc \o <<Unlock("SCHEDULER")>>)

\* GlobalTaskScheduler::kill_active, one turn of its loop
kill_active_locks ==
    without_interrupts(<<Lock("SCHEDULER"), Unlock("SCHEDULER")>>)

\* "mythready".to_string() in the thread function a
to_string_locks == heap_alloc

\* main_task, lines 58-63: spawn_thread and join inside without_interrupts
main_task_locks == without_interrupts(spawn_thread_locks \o join_locks)

\* Process::remove_thread: the record is deallocated, then the stack is freed
remove_thread_locks_ptm_first ==
    heap_dealloc \o <<Lock("PTM"), Lock("VMM")>> \o heap_dealloc
        \o <<Unlock("VMM"), Unlock("PTM")>>
remove_thread_locks ==
    heap_dealloc \o <<Lock("VMM")>> \o vmm_free_locks \o <<Unlock("VMM")>>

\* TaskScheduler::remove_task of a process with one thread
remove_task_locks ==
    remove_thread_locks \o heap_dealloc
        \o <<Lock("VMM")>> \o vmm_free_locks \o <<Unlock("VMM")>>

\* TaskScheduler::switch_processes: get_next_process, reaping a dead process
\* if `reap`, then the switch of the tables under the manager's lock, which
\* is released by PTM.unlock() and again when the guard is dropped
switch_processes_locks(reap) ==
    (IF reap THEN remove_task_locks ELSE <<>>)
        \o <<Lock("PTM"), Unlock("PTM"), Unlock("PTM")>>

\* the ways through TaskScheduler::schedule
SchedulePaths == {"thread", "switch", "reap"}
schedule_locks(path) ==
    IF path = "thread" THEN <<>> ELSE switch_processes_locks(path = "reap")

\* pit_handler and perform_context_switch
pit_handler_locks(path) ==
    <<Lock("PIT"), Lock("SCHEDULER")>> \o schedule_locks(path)
        \o <<Unlock("SCHEDULER"), Unlock("PIT"), Iret>>

\* what thread code calls
ThreadCalls ==
    [to_string |-> to_string_locks, print |-> print_locks,
     spawn_thread |-> spawn_thread_locks, spawn_process |-> spawn_process_locks,
     join |-> join_locks, kill_active |-> kill_active_locks,
     main_task |-> main_task_locks]

Contexts == 0..LockThreads

\* No lock is held, interrupts are enabled (main.rs, line 40) and thread 1 runs.
\* `saved` is the stack of the flags without_interrupts has read, `held` the
\* locks a context has acquired and not released, `spin` the context that
\* spins on a lock no one can release.
BootLocks ==
    [locked |-> [l \in LockNames |-> FALSE],
     enabled |-> TRUE,
     cur |-> 1,
     prog |-> [c \in Contexts |-> <<>>],
     saved |-> [c \in Contexts |-> <<>>],
     held |-> [c \in Contexts |-> {}],
     spin |-> -1]

\* one instruction of the context k.cur; `next` is the thread iret resumes
exec_lock(k, l) ==
    IF k.locked[l]
    THEN IF k.cur = 0 \/ ~k.enabled \/ l \in k.held[k.cur]
         THEN [k EXCEPT !.spin = k.cur] ELSE k
    ELSE [k EXCEPT !.locked[l] = TRUE,
                   !.held[k.cur] = @ \cup {l},
                   !.prog[k.cur] = Tail(@)]

exec_unlock(k, l) ==
    [k EXCEPT !.locked[l] = FALSE,
              !.held[k.cur] = @ \ {l},
              !.prog[k.cur] = Tail(@)]

exec_without_begin(k) ==
    [k EXCEPT !.saved[k.cur] = <<k.enabled>> \o @,
              !.enabled = FALSE,
              !.prog[k.cur] = Tail(@)]

exec_without_end(k) ==
    [k EXCEPT !.enabled = IF Head(k.saved[k.cur]) THEN TRUE ELSE @,
              !.saved[k.cur] = Tail(@),
              !.prog[k.cur] = Tail(@)]

\* iretq: the flags of a thread's saved state have the interrupt flag set
exec_iret(k, next) ==
    [k EXCEPT !.prog[0] = <<>>, !.cur = next, !.enabled = TRUE]

exec(k, ins, next) ==
    IF ins.i = "lock" THEN exec_lock(k, ins.l)
    ELSE IF ins.i = "unlock" THEN exec_unlock(k, ins.l)
    ELSE IF ins.i = "without_begin" THEN exec_without_begin(k)
    ELSE IF ins.i = "without_end" THEN exec_without_end(k)
    ELSE exec_iret(k, next)

\* the timer interrupt enters pit_handler with interrupts off
interrupt(k, path) ==
    [k EXCEPT !.cur = 0, !.enabled = FALSE, !.prog[0] = pit_handler_locks(path)]

LockStep(op, arg, k) ==
    /\ locks' = k
    /\ ret' = [op |-> op, arg |-> arg, ok |-> k.spin = -1, val |-> locks.cur]
    /\ UNCHANGED <<pmm, tables, ptm, vmm, objs, calls, granted, sched, procs, threads,
                   uptime, cpu, client, watch, trap>>

\* the running thread calls one of the operations
Call ==
    /\ locks.spin = -1
    /\ locks.cur # 0
    /\ locks.prog[locks.cur] = <<>>
    /\ \E f \in DOMAIN ThreadCalls :
         LockStep("call", f, [locks EXCEPT !.prog[locks.cur] = ThreadCalls[f]])

\* the running context executes its next instruction
Instruction ==
    /\ locks.spin = -1
    /\ locks.prog[locks.cur] # <<>>
    /\ \E next \in 1..LockThreads :
         /\ exec(locks, Head(locks.prog[locks.cur]), next) # locks
         /\ LockStep(Head(locks.prog[locks.cur]).i, Head(locks.prog[locks.cur]).l,
                     exec(locks, Head(locks.prog[locks.cur]), next))

\* the timer interrupts the running thread
Timer ==
    /\ locks.spin = -1
    /\ locks.cur # 0
    /\ locks.enabled
    /\ \E path \in SchedulePaths :
         LockStep("interrupt", path, interrupt(locks, path))

InitLock ==
    /\ pmm = try_new(MapSmall).pmm
    /\ tables = <<>>
    /\ ptm = [page_map_level4_physical |-> 0, page_map_level4_virtual |-> 0, offset |-> 0]
    /\ vmm = NoVmm
    /\ objs = <<>>
    /\ calls = 0
    /\ granted = {}
    /\ sched = [head |-> 0, active_task |-> 0, id_counter |-> 0]
    /\ procs = <<>>
    /\ threads = <<>>
    /\ uptime = 0
    /\ cpu = 0
    /\ client = <<>>
    /\ watch = [pid |-> 0, calls |-> 0, tids |-> {}, ran |-> {}]
    /\ locks = BootLocks
    /\ trap = <<>>
    /\ ret = NoRet

NextLock ==
    \/ Call
    \/ Instruction
    \/ Timer

SpecLock == InitLock /\ [][NextLock]_vars

(***************************************************************************)
(* The frame allocator as the loader constructs it, over several boot      *)
(* memory maps: try_new, then frames are requested and given back.         *)
(***************************************************************************)
\* A machine with more than 128 MiB: 40000 frames need a bitmap of 5000
\* bytes, which does not fit one frame.
MapLarge ==
    [descriptors |-> << Desc(0, PAGE_SIZE, "Reserved"),
                        Desc(PAGE_SIZE, 40000 * PAGE_SIZE, "Available") >>,
     first_addr |-> 0,
     last_addr |-> 40000 * PAGE_SIZE]

\* The largest Available area is not the first, and kernel data lies between
MapSplit ==
    [descriptors |-> << Desc(0, 2 * PAGE_SIZE, "Available"),
                        Desc(2 * PAGE_SIZE, 4 * PAGE_SIZE, "KernelData"),
                        Desc(4 * PAGE_SIZE, 12 * PAGE_SIZE, "Available"),
                        Desc(12 * PAGE_SIZE, 13 * PAGE_SIZE, "KernelStack") >>,
     first_addr |-> 0,
     last_addr |-> 13 * PAGE_SIZE]

BootMaps == {MapSmall, MapPtm, MapVmm, MapSplit, MapLarge}

\* calls made of the allocator after its construction
MaxBootCalls == 6

\* what try_new computes for the placement of the bitmap
bit_map_size(memory_map) ==
    (((memory_map.last_addr + PAGE_SIZE - 1) \div PAGE_SIZE) + 7) \div 8
largest_memory_area_ptr(memory_map) ==
    memory_map.descriptors[LargestAvailable(memory_map)].phys_start

\* the frames that hold a byte of the bitmap buffer
BitMapFrames(memory_map) ==
    {f * PAGE_SIZE :
        f \in (largest_memory_area_ptr(memory_map) \div PAGE_SIZE) ..
              ((largest_memory_area_ptr(memory_map) + bit_map_size(memory_map) - 1)
                   \div PAGE_SIZE)}

\* the frames of the descriptors that are not Available
DescriptorFrames(d) == {d.phys_start + i * PAGE_SIZE : i \in 0..(d.num_pages - 1)}
NonAvailableFrames(memory_map) ==
    UNION {DescriptorFrames(memory_map.descriptors[i]) :
              i \in {j \in 1..Len(memory_map.descriptors) :
                        memory_map.descriptors[j].type # "Available"}}

BootStep(op, arg, r, held) ==
    /\ calls < MaxBootCalls
    /\ calls' = calls + 1
    /\ pmm' = r.pmm
    /\ granted' = held
    /\ UNCHANGED <<tables, ptm, vmm, objs, schedVars>>
    /\ ret' = [op |-> op, arg |-> arg, ok |-> r.ok, val |-> r.val,
               moved |-> r.pmm.free_memory - pmm.free_memory]

BootRequestPageOn(r) ==
    BootStep("request_page", 0, r, IF r.ok THEN granted \cup {r.val} ELSE granted)

BootRequestPage == BootRequestPageOn(request_page(pmm))

BootFreeFrame ==
    \E a \in granted : BootStep("free_frame", a, free_frame(pmm, a), granted \ {a})

InitBoot ==
    /\ \E m \in BootMaps : pmm = try_new(m).pmm
    /\ tables = <<>>
    /\ ptm = [page_map_level4_physical |-> 0, page_map_level4_virtual |-> 0, offset |-> 0]
    /\ vmm = NoVmm
    /\ objs = <<>>
    /\ calls = 0
    /\ granted = {}
    /\ NoSched
    /\ ret = NoRet

NextBoot ==
    \/ BootRequestPage
    \/ BootFreeFrame

SpecBoot == InitBoot /\ [][NextBoot]_vars

(***************************************************************************)
(*                 FRAME ALLOCATOR: accounting and scanning                *)
(***************************************************************************)
\* the single-frame and batch operations of the frame allocator
PmmOps ==
    {"request_page", "allocate_frame", "free_frame", "reserve_frame", "free_reserved_frame",
     "allocate_frames", "free_frames", "reserve_frames", "free_reserved_frames"}

CounterSum(p) == p.free_memory + p.used_memory + p.reserved_memory

\* C14: once the frame allocator is initialized, free_memory + used_memory +
\* reserved_memory keeps the value it had after try_new under every call of
\* request_page and of the single-frame and batch operations, whether the
\* call returns Ok or an error.
C14_CounterSumConstant ==
    [][ret'.op \in PmmOps =>
          /\ CounterSum(pmm') = CounterSum(pmm)
          /\ CounterSum(pmm') = total_available_memory(pmm.memory_map)]_vars

\* C14 witness: a batch call has returned an error after it moved a frame
\* from free to used
C14_Witness ==
    /\ ret.op = "allocate_frames"
    /\ ~ret.ok
    /\ ret.moved = -PAGE_SIZE
    /\ pmm.used_memory > 0

\* the Free frames of the Available descriptors
FreeAvailable(p) ==
    {a \in PmmAddrs : InAvailable(p, a) /\ (a \div PAGE_SIZE) \notin p.bit_map.bits}

\* C15: request_page fails with NoMoreFreePages only if no frame of the
\* Available memory is Free: whenever a frame is Free, also one below the scan
\* position, the call returns a Free frame.
C15_RequestPageFindsAnyFree ==
    [][ret'.op = "request_page" =>
          IF FreeAvailable(pmm) # {}
          THEN ret'.ok /\ ret'.val \in FreeAvailable(pmm)
          ELSE ~ret'.ok /\ ret'.val = "NoMoreFreePages"]_vars

\* C16: a freed frame becomes requestable again: when free_frame has just
\* freed a Used frame f of an Available descriptor and no other frame is
\* Free, repeated request_page calls return f - the first call, or after a
\* first call that fails and rewinds the scan the second one.
C16_FreedFrameRequestable ==
    (/\ ret.op = "free_frame" /\ ret.ok /\ ret.moved = PAGE_SIZE
     /\ FreeAvailable(pmm) = {ret.arg})
        => LET first == request_page(pmm)
               second == request_page(first.pmm)
           IN  \/ first.ok /\ first.val = ret.arg
               \/ /\ ~first.ok
                  /\ first.pmm.bit_map = pmm.bit_map
                  /\ second.ok /\ second.val = ret.arg

\* C16 witness: the freed frame lies below the scan position, so the first
\* request_page fails and only the second returns it
C16_Witness ==
    /\ ret.op = "free_frame" /\ ret.ok /\ ret.moved = PAGE_SIZE
    /\ FreeAvailable(pmm) = {ret.arg}
    /\ ret.arg < pmm.current_address
    /\ ~request_page(pmm).ok
    /\ request_page(request_page(pmm).pmm).val = ret.arg

\* the allocator's bitmap and byte counters
Accounts(p) == <<p.bit_map, p.free_memory, p.used_memory, p.reserved_memory>>

\* is `twice` the same as `once`: the same result, bitmap and counters
SameOutcome(once, twice) ==
    /\ twice.ok = once.ok
    /\ twice.val = once.val
    /\ Accounts(twice.pmm) = Accounts(once.pmm)

\* C20: allocate_frame, free_frame, reserve_frame and free_reserved_frame are
\* idempotent: applied to a frame whose bit already has the target value the
\* call changes nothing, and applied twice in a row to the same frame it leaves
\* the bitmap and the free/used/reserved counters as after the first call.
C20_SingleFrameIdempotent ==
    \A a \in PmmAddrs :
        /\ SameOutcome(allocate_frame(pmm, a), allocate_frame(allocate_frame(pmm, a).pmm, a))
        /\ SameOutcome(free_frame(pmm, a), free_frame(free_frame(pmm, a).pmm, a))
        /\ SameOutcome(reserve_frame(pmm, a), reserve_frame(reserve_frame(pmm, a).pmm, a))
        /\ SameOutcome(free_reserved_frame(pmm, a),
                       free_reserved_frame(free_reserved_frame(pmm, a).pmm, a))
        /\ (a \div PAGE_SIZE) \in pmm.bit_map.bits
               => /\ allocate_frame(pmm, a).pmm = pmm
                  /\ reserve_frame(pmm, a).pmm = pmm
        /\ ((a \div PAGE_SIZE) \notin pmm.bit_map.bits /\ BitMapGet(pmm.bit_map, a \div PAGE_SIZE).ok)
               => /\ free_frame(pmm, a).pmm = pmm
                  /\ free_reserved_frame(pmm, a).pmm = pmm

\* C20 witness: reserve_frame has just reserved a Free frame, and a second
\* call on the same frame would change nothing
C20_Witness ==
    /\ ret.op = "reserve_frame" /\ ret.ok /\ ret.moved = -PAGE_SIZE
    /\ (ret.arg \div PAGE_SIZE) \in pmm.bit_map.bits
    /\ reserve_frame(pmm, ret.arg).pmm = pmm

(***************************************************************************)
(*                 REGION ALLOCATOR: alloc and free, call by call          *)
(***************************************************************************)
\* the nodes of the object list, from `current` on
RECURSIVE ListFrom(_, _, _)
ListFrom(o, current, fuel) ==
    IF current = 0 \/ fuel = 0 THEN {}
    ELSE {current} \cup ListFrom(o, o[current].next, fuel - 1)

\* the first node of the list whose base is `base` (0: none)
FirstAt(o, head, base) ==
    IF \E c \in ListFrom(o, head, Len(o)) : o[c].base = base
    THEN free_find(o, head, base, Len(o) + 1)
    ELSE 0

\* the pages of the region of node `cur` that starts at `address`
PagesAt(o, cur, address) ==
    {VaAdd(address, k * PAGE_SIZE) : k \in 0..(o[cur].length \div PAGE_SIZE - 1)}

\* C18: free(a) fails with RequestedVmObjectIsNotAllocated and changes
\* nothing when no region of the list has the base a exactly; when it succeeds
\* it has unmapped every page of the region, given each backing frame back to
\* the frame allocator unless the region is device-mapped, unlinked and
\* deallocated the node and decreased pages_allocated by the region's pages.
C18_FreeExactBase ==
    [][ret'.op = "free" =>
          LET a == ret'.arg[1]
              cur == FirstAt(objs, vmm.head, VaSub(a, vmm.vmm_start))
          IN  IF cur = 0
              THEN /\ ~ret'.ok /\ ret'.val = "RequestedVmObjectIsNotAllocated"
                   /\ vmm' = vmm /\ objs' = objs /\ tables' = tables /\ pmm' = pmm
              ELSE ret'.ok =>
                   /\ \A va \in PagesAt(objs, cur, a) :
                         /\ get_entry_data(ptm, tables', va).addr = 0
                         /\ get_entry_data(ptm, tables', va).flags = {}
                         /\ "MMIO" \notin objs[cur].flags =>
                               (get_physical(ptm, tables, va).val \div PAGE_SIZE)
                                   \notin pmm'.bit_map.bits
                   /\ "MMIO" \in objs[cur].flags => pmm' = pmm
                   /\ ~objs'[cur].live
                   /\ cur \notin ListFrom(objs', vmm'.head, Len(objs'))
                   /\ vmm'.pages_allocated
                          = vmm.pages_allocated - objs[cur].length \div PAGE_SIZE]_vars

\* C19: alloc fails with OutOfMemory exactly when pages_allocated plus the
\* pages of the page-rounded length exceeds vmm_page_count, and then the
\* object list, pages_allocated, the page tables and the frame allocator are
\* as before the call.
C19_OutOfMemoryExact ==
    [][ret'.op = "alloc" =>
          LET pages == align_up(ret'.arg[1], PAGE_SIZE) \div PAGE_SIZE
              over == UsizeGt(vmm.pages_allocated + pages, vmm.vmm_page_count)
          IN  /\ (~ret'.ok /\ ret'.val = "OutOfMemory") <=> over
              /\ over => /\ vmm' = vmm /\ objs' = objs /\ tables' = tables
                         /\ pmm' = pmm /\ ptm' = ptm]_vars

\* C19 witness: a three-page request has been refused with three of the five
\* pages already allocated, where a one-page request would still fit
C19_Witness ==
    /\ ret.op = "alloc" /\ ~ret.ok /\ ret.val = "OutOfMemory"
    /\ ret.arg[1] = 3 * PAGE_SIZE
    /\ vmm.pages_allocated = 3
    /\ vmm.vmm_page_count = 5

\* the entries 0..255 of the root table in `frame`: the lower (user) half
LowerHalf(t, frame) ==
    IF frame \notin DOMAIN t THEN <<>>
    ELSE [i \in {j \in DOMAIN t[frame] : j < 256} |-> t[frame][i]]

\* the frame of the root table of the process in cell c
RootFrame(m, t, pr, c) == get_physical(m, t, pr[c].page_table_mappings).val

\* C13: copying the kernel mappings into a process's root table, at
\* spawn_process and at a process switch, leaves the lower-half entries of
\* every process's root table as they were: no process's user mappings
\* appear in another process's table.
C13_CopyKeepsLowerHalf ==
    [][ret'.op \in {"schedule", "spawn_process"} =>
          \A c \in DOMAIN procs' :
              procs'[c].live =>
                  LowerHalf(tables', RootFrame(ptm', tables', procs', c))
                      = LowerHalf(tables, RootFrame(ptm', tables', procs', c))]_vars

\* the cells of the processes whose active thread a remove_thread(tid, false)
\* with that thread's tid would take out of the list
NonForcedRemovals(k) ==
    {pc \in DOMAIN k.procs :
        /\ k.procs[pc].live
        /\ k.procs[pc].active_thread # 0
        /\ remove_thread(k, pc, k.threads[k.procs[pc].active_thread].tid, FALSE)
               # SErr("panic", k)}

\* C17: over every operation of the scheduler the idle process stays the head
\* of the ring and is not removed, the process that is active when the
\* operation starts and the one that is active when it ends are not removed,
\* and remove_thread without force refuses the active thread of any process.
C17_IdleAndActiveKept ==
    [][/\ sched'.head = sched.head
       /\ procs'[sched'.head].live
       /\ procs'[sched'.head].pid = procs[sched.head].pid
       /\ (sched.active_task # 0 => procs[sched.active_task].pid \notin ret'.reaped)
       /\ (sched'.active_task # 0 => procs'[sched'.active_task].live)
       /\ NonForcedRemovals(KNow) = {}]_vars

\* schedule has removed a dead process from the ring while another one ran
C17_Witness ==
    /\ ret.op = "schedule"
    /\ ret.ok
    /\ ret.reaped # {}
    /\ procs[sched.head].live
    /\ sched.active_task # 0
    /\ procs[sched.active_task].live
    /\ procs[sched.active_task].active_thread # 0

\* the locks of the scheduler and of the allocators
SchedulerAllocatorLocks == {"SCHEDULER", "VMM", "PTM", "ALLOCATOR"}

\* C11: a thread holds a lock of the scheduler or of an allocator only while
\* it runs with interrupts disabled, and the timer's interrupt handler never
\* spins on a lock that the thread it interrupted holds.
C11_CriticalSectionsUninterruptible ==
    /\ \A c \in 1..LockThreads :
           locks.held[c] \cap SchedulerAllocatorLocks # {}
               => (locks.cur = c /\ ~locks.enabled)
    /\ locks.spin # 0

\* C12: a context that acquires the region allocator's lock does not hold
\* the page table manager's lock, so wherever both are held the region
\* allocator's was taken first; and no context locks a lock it holds.
C12_LockOrder ==
    [][ret'.op = "lock" =>
          /\ (ret'.arg = "VMM" => "PTM" \notin locks.held[locks.cur])
          /\ ret'.arg \notin locks.held[locks.cur]]_vars

\* the interrupt handler, reaping a process, holds both locks
C12_Witness ==
    /\ ret.op = "lock"
    /\ ret.arg = "PTM"
    /\ ret.ok
    /\ locks.cur = 0
    /\ {"VMM", "PTM"} \subseteq locks.held[0]

\* C21: once the frame allocator is constructed, every frame that holds a
\* byte of its bitmap and every frame of a non-Available descriptor is marked
\* in the bitmap, and request_page never returns one of these frames.
C21_BitmapAndReservedProtected ==
    /\ \A a \in BitMapFrames(pmm.memory_map) \cup NonAvailableFrames(pmm.memory_map) :
           BitMapGet(pmm.bit_map, a \div PAGE_SIZE) = [ok |-> TRUE, val |-> TRUE]
    /\ (ret.op = "request_page" /\ ret.ok)
           => ret.val \notin BitMapFrames(pmm.memory_map)
                                 \cup NonAvailableFrames(pmm.memory_map)

\* C22: unmap(v) returns the physical address mapped at v when v has a present
\* leaf mapping, and returns no address when it has none, as when v has never
\* been mapped or has been unmapped before.
C22_UnmapReportsMapping ==
    [][ret'.op = "unmap" =>
          IF ret'.was.some /\ "PRESENT" \in ret'.was.flags
          THEN ret'.ok /\ ret'.pa = ret'.was.addr
          ELSE ~ret'.ok]_vars

\* no process of the ring other than the active one is Ready
NoOtherReady(pr, active) ==
    \A c \in DOMAIN pr : pr[c].live /\ c # active => pr[c].status # "Ready"

\* C23: when the active process has no Ready thread and no other process of the
\* ring is Ready, schedule returns the trap context it was given, and the active
\* process and its active thread are still the process and thread interrupted.
C23_NoOtherReadyResumes ==
    [][(/\ ret'.op = "schedule"
        /\ sched.active_task # 0
        /\ get_next_thread(KNow, sched.active_task, ret'.arg).kind \in {"None", "TaskDead"}
        /\ NoOtherReady(procs, sched.active_task))
       => /\ ret'.ok
          /\ ret'.val = cpu
          /\ sched'.active_task = sched.active_task
          /\ procs'[sched.active_task].active_thread = cpu]_vars

\* schedule has just gone through switch_processes (the thread it resumes is left
\* Ready) with the active process alone in the ring
C23_Witness ==
    /\ ret.op = "schedule"
    /\ ret.ok
    /\ ret.reaped = {}
    /\ sched.active_task # 0
    /\ cpu # 0
    /\ procs[sched.active_task].active_thread = cpu
    /\ threads[cpu].status = "Ready"
    /\ {c \in DOMAIN procs : procs[c].live} = {sched.active_task}

\* the thread schedule finds Ready in the active process, as the call of the
\* step just taken saw it (0: none)
FoundThread(u) ==
    IF sched.active_task = 0 THEN 0
    ELSE IF get_next_thread(KNow, sched.active_task, u).kind = "Found"
    THEN get_next_thread(KNow, sched.active_task, u).thread
    ELSE 0

\* C24: when schedule finds a Ready thread in the active process, the previously
\* active thread gets the trap context and becomes Ready unless it is Dead (then
\* its status and context stay), the found thread becomes Running and active, its
\* saved state is returned, and the active process, the ring and the installed
\* page table stay as they were.
C24_FoundThreadSwitch ==
    [][(ret'.op = "schedule" /\ FoundThread(ret'.arg) # 0)
       => LET at    == sched.active_task
              prev  == procs[at].active_thread
              found == FoundThread(ret'.arg)
          IN  /\ ret'.ok
              /\ IF threads[prev].status # "Dead"
                 THEN threads'[prev].status = "Ready" /\ threads'[prev].context = cpu
                 ELSE threads'[prev].status = "Dead"
                      /\ threads'[prev].context = threads[prev].context
              /\ threads'[found].status = "Running"
              /\ procs'[at].active_thread = found
              /\ ret'.val = threads[found].context
              /\ sched' = sched
              /\ procs' = [procs EXCEPT ![at].active_thread = found]
              /\ ptm' = ptm
              /\ tables' = tables]_vars

\* schedule has just moved the processor from a Dead thread of the active process
\* to another thread of it
C24_Witness ==
    /\ ret.op = "schedule"
    /\ ret.ok
    /\ ret.reaped = {}
    /\ cpu # 0
    /\ threads[cpu].status = "Running"
    /\ procs[sched.active_task].active_thread = cpu
    /\ procs[sched.active_task].main_thread # cpu
    /\ ret.was = "Dead"

\* C25: the first call of schedule, made while no process is active, makes the
\* process at the head of the ring (the idle process) and its main thread Running
\* and active and returns the saved state of that main thread, whatever trap
\* context it was given.
C25_FirstCallStartsIdle ==
    [][(ret'.op = "schedule" /\ sched.active_task = 0)
       => LET idle == sched.head
              main == procs[idle].main_thread
          IN  /\ ret'.ok
              /\ idle # 0
              /\ procs[idle].pid = 1
              /\ sched'.active_task = idle
              /\ sched'.head = idle
              /\ procs'[idle].status = "Running"
              /\ procs'[idle].active_thread = main
              /\ threads'[main].status = "Running"
              /\ ret'.val = threads[main].context
              /\ ret'.val # cpu]_vars

\* the first call of schedule has just been made
C25_Witness ==
    /\ ret.op = "schedule"
    /\ ret.ok
    /\ ret.was = "none"
    /\ sched.active_task = sched.head
    /\ cpu = procs[sched.head].main_thread
    /\ threads[cpu].status = "Running"

\* the offsets at which a region of `length` bytes fits between the regions of
\* the list: offset 0 or the end of a region, with no region reaching into
\* [b, b + length); a fitting gap may be exactly `length` bytes long
FittingBases(o, length) ==
    {b \in {0} \cup {o[c].base + o[c].length : c \in {d \in DOMAIN o : o[d].live}} :
        \A c \in {d \in DOMAIN o : o[d].live} :
            o[c].base + o[c].length <= b \/ b + length <= o[c].base}

\* the lowest of them; the end of the last region always fits
FirstGapBase(o, length) ==
    CHOOSE b \in FittingBases(o, length) : \A x \in FittingBases(o, length) : b <= x

\* C26: a successful alloc places the new region at the lowest gap of the object
\* list that is at least as long as the page-rounded length: before the first
\* object, else between two consecutive objects, else after the last one.
C26_FirstFit ==
    [][(ret'.op = "alloc" /\ ret'.ok)
       => VaSub(ret'.val, vmm.vmm_start)
              = FirstGapBase(objs, align_up(ret'.arg[1], PAGE_SIZE))]_vars

\* C27: an unmap(v) that reaches the leaf entry of v executes invlpg on the
\* virtual address v itself, and on nothing else.
C27_UnmapInvalidatesVirtual ==
    [][(ret'.op = "unmap" /\ ret'.ok)
       => /\ Len(ret'.invlpg) = 1
          /\ VA(ret'.invlpg[1] \div GIB, ret'.invlpg[1] % GIB) = ret'.arg[1]]_vars

\* C28: after map_memory has installed a leaf with USER_SUPER, the three
\* intermediate entries on the way to it are PRESENT and USER_SUPER, whether
\* their tables were created by the call or were there without the flag; and a
\* map_memory of a leaf without USER_SUPER leaves USER_SUPER on every
\* intermediate entry that had it.
C28_UserPathWalkable ==
    [][(ret'.op = "map_memory" /\ ret'.ok)
       => LET after == PathFlags(ptm', tables', PageMapIndexer(ret'.arg[1]))
          IN  /\ Len(after) = 3
              /\ "USER_SUPER" \in ret'.arg[3]
                    => \A i \in 1..3 : {"PRESENT", "USER_SUPER"} \subseteq after[i]
              /\ "USER_SUPER" \notin ret'.arg[3]
                    => \A i \in 1..Len(ret'.path) :
                           "USER_SUPER" \in ret'.path[i] => "USER_SUPER" \in after[i]]_vars

\* a user leaf has just been mapped below three intermediate entries that were
\* present without USER_SUPER
C28_Witness ==
    /\ ret.op = "map_memory"
    /\ ret.ok
    /\ "USER_SUPER" \in ret.arg[3]
    /\ Len(ret.path) = 3
    /\ \A i \in 1..3 : "PRESENT" \in ret.path[i] /\ "USER_SUPER" \notin ret.path[i]
    /\ \A i \in 1..3 : "USER_SUPER" \in PathFlags(ptm, tables, PageMapIndexer(ret.arg[1]))[i]

\* C29: after a successful alloc every page of the new region has a leaf entry
\* that get_entry_data reads back as present, READ_WRITE exactly when the region
\* has WRITE, USER_SUPER exactly when it has USER, and EXECUTE_DISABLE exactly
\* when it has not EXECUTABLE.
C29_LeafPermissions ==
    [][(ret'.op = "alloc" /\ ret'.ok)
       => \A k \in 0..(align_up(ret'.arg[1], PAGE_SIZE) \div PAGE_SIZE - 1) :
              LET data == get_entry_data(ptm', tables', VaAdd(ret'.val, k * PAGE_SIZE))
              IN  /\ data.some
                  /\ "PRESENT" \in data.flags
                  /\ "READ_WRITE" \in data.flags <=> "WRITE" \in ret'.arg[2]
                  /\ "USER_SUPER" \in data.flags <=> "USER" \in ret'.arg[2]
                  /\ "EXECUTE_DISABLE" \in data.flags <=> "EXECUTABLE" \notin ret'.arg[2]]_vars

\* C30: every region handed out by alloc and not yet freed is a live node that
\* the head's chain of next pointers reaches, the head is null or a live node,
\* and free(a) of the address of such a region succeeds.
C30_RegionsStayReachable ==
    [][/\ \A g \in granted' :
            \E c \in ListFrom(objs', vmm'.head, Len(objs')) :
                objs'[c].live /\ objs'[c].base = g.base
       /\ vmm'.head # 0 => objs'[vmm'.head].live
       /\ (ret'.op = "free"
              /\ \E g \in granted : g.base = VaSub(ret'.arg[1], vmm.vmm_start))
          => ret'.ok]_vars

\* C31: every region handed out by alloc and not yet freed, and every live node
\* of the object list, ends at or below the end of the window: base + length is
\* at most vmm_page_count pages.
C31_RegionsInsideWindow ==
    /\ \A g \in granted : g.base + g.length <= vmm.vmm_page_count * PAGE_SIZE
    /\ \A c \in DOMAIN objs :
           objs[c].live => objs[c].base + objs[c].length <= vmm.vmm_page_count * PAGE_SIZE

\* C32: an alloc that returns an error leaves the allocator as it was before the
\* call: the object list, pages_allocated, the page tables and the frame
\* allocator are unchanged.
C32_FailedAllocChangesNothing ==
    [][(ret'.op = "alloc" /\ ~ret'.ok)
       => /\ vmm' = vmm
          /\ objs' = objs
          /\ tables' = tables
          /\ pmm' = pmm]_vars

\* C33: the state schedule returns is never that of a thread that was Dead when
\* schedule was called, of a thread whose record has been deallocated, or of a
\* thread of a process that is Dead or has been removed from the ring.
C33_NeverResumesDead ==
    [][(ret'.op = "schedule" /\ ret'.ok)
       => /\ cpu' # 0
          /\ threads[cpu'].live
          /\ threads[cpu'].status # "Dead"
          /\ threads'[cpu'].live
          /\ threads'[cpu'].status # "Dead"
          /\ \E c \in DOMAIN procs' :
                 /\ procs'[c].live
                 /\ procs'[c].pid = threads'[cpu'].pid
                 /\ procs'[c].status # "Dead"]_vars

\* schedule has just taken the processor from a thread that is Dead and given it
\* to a thread that is not, while a Dead thread is still in a thread list
C33_Witness ==
    /\ ret.op = "schedule"
    /\ ret.ok
    /\ ret.was = "Dead"
    /\ cpu # 0
    /\ threads[cpu].status # "Dead"
    /\ \E c \in DOMAIN threads : threads[c].live /\ threads[c].status = "Dead"

\* C34: after every schedule call the thread whose state is returned is the
\* active thread of the active process and is Running, and no other thread is
\* Running.
C34_OneRunningThread ==
    (ret.op = "schedule" /\ ret.ok)
        => /\ sched.active_task # 0
           /\ procs[sched.active_task].active_thread = cpu
           /\ threads[cpu].status = "Running"
           /\ \A c \in DOMAIN threads :
                  threads[c].live /\ threads[c].status = "Running" => c = cpu

\* C35: the state schedule returns is the trap context captured at the latest
\* preemption of the thread it resumes (the state Thread::create made up when
\* that thread has never been preempted while not Dead), whether the thread is
\* reached by a switch inside the process or by a switch of processes.
C35_ResumesLatestContext ==
    [][(ret'.op = "schedule" /\ ret'.ok)
       => LET resumed == procs'[sched'.active_task].active_thread
          IN  /\ cpu' = resumed
              /\ ret'.val = IF trap'[resumed] = 0 THEN resumed ELSE trap'[resumed]]_vars

\* schedule has just resumed, from its second trap frame, a thread that is not
\* the main thread of its process, having taken the processor from another
\* thread that was not Dead
C35_Witness ==
    /\ ret.op = "schedule"
    /\ ret.ok
    /\ ret.was # "Dead"
    /\ cpu # 0
    /\ ret.val = TrapContext(cpu, 2)
    /\ trap[cpu] = ret.val
    /\ procs[sched.active_task].active_thread = cpu
    /\ procs[sched.active_task].main_thread # cpu
    /\ \E c \in DOMAIN trap : c # cpu /\ trap[c] # 0

\* thread cell c holds a Ready thread of a process that is in the ring and not Dead
ReadyInLiveProcess(c) ==
    /\ threads[c].live
    /\ threads[c].status = "Ready"
    /\ \E p \in DOMAIN procs :
           procs[p].live /\ procs[p].pid = threads[c].pid /\ procs[p].status # "Dead"

\* C36: while timer ticks keep coming, a thread that is Ready in a process that
\* is not Dead does not stay so for ever without being given the processor,
\* wherever it is in its thread list and its process in the ring.
C36_NoStarvation ==
    \A c \in 1..MaxThreads :
        [](ReadyInLiveProcess(c) => <>(cpu = c \/ ~ReadyInLiveProcess(c) \/ Halted))

\* the processor has been given to a thread that is not the main thread of its
\* process while a thread of the same process and one of another wait Ready
C36_Witness ==
    /\ ret.op = "schedule" /\ ret.ok
    /\ cpu # 0
    /\ threads[cpu].live /\ threads[cpu].status = "Running"
    /\ procs[sched.active_task].active_thread = cpu
    /\ procs[sched.active_task].main_thread # cpu
    /\ \E c2, c3 \in 1..MaxThreads :
           /\ ReadyInLiveProcess(c2) /\ ReadyInLiveProcess(c3)
           /\ threads[c2].pid = threads[cpu].pid
           /\ threads[c3].pid # threads[cpu].pid

\* thread cell d holds a thread that is alive and named in the join-set of a
\* thread of its process that is in the loop of kill_active
Awaited(d) ==
    /\ threads[d].live
    /\ threads[d].status # "Dead"
    /\ \E c \in DOMAIN threads :
          /\ c # d
          /\ threads[c].live
          /\ client[c].phase = "kill"
          /\ threads[c].pid = threads[d].pid
          /\ \E i \in DOMAIN threads[c].joins : threads[c].joins[i] = threads[d].tid

\* C37: if the timer keeps ticking and every thread that a thread in the loop of
\* kill_active has joined calls kill_active at some time, then every thread
\* that has entered kill_active becomes Dead at some time, whatever the threads
\* have joined, threads that have joined each other included.
C37_KillActiveTerminates ==
    (\A d \in 1..MaxThreads : []<>~(Awaited(d) /\ client[d].phase = "run"))
    => (\A c \in 1..MaxThreads :
            []((threads[c].live /\ client[c].phase = "kill")
               => <>(~threads[c].live \/ threads[c].status = "Dead" \/ Halted)))

\* C38: after every call of schedule the root table that is installed, which
\* is the one the page table manager points to, is the root table of the
\* process whose thread is resumed - after the first call, which starts the
\* idle process, and after a switch between threads of one process as well.
C38_ResumedProcessTableInstalled ==
    [][(ret'.op = "schedule" /\ ret'.ok)
       => ptm'.page_map_level4_physical
              = RootFrame(ptm', tables', procs', sched'.active_task)]_vars

\* no link of the ring, link of a thread list or active pointer that a record
\* in use or the scheduler holds leads to a deallocated record
NoLinkToFreed ==
    /\ \A p \in {sched.head, sched.active_task} \ {0} : procs[p].live
    /\ \A p \in DOMAIN procs :
          procs[p].live =>
             /\ \A q \in {procs[p].next, procs[p].prev} \ {0} : procs[q].live
             /\ \A c \in {procs[p].main_thread, procs[p].active_thread} \ {0} :
                    threads[c].live
    /\ \A c \in DOMAIN threads :
          threads[c].live =>
             \A d \in {threads[c].next, threads[c].prev} \ {0} : threads[d].live

\* get_next_process reads `current_ref.next` (lines 327-331) of a record that
\* the remove_task of line 322 has deallocated, somewhere on its walk from
\* `current` on
RECURSIVE WalkReadsFreed(_, _, _, _)
WalkReadsFreedAfter(pid, current, fuel, removed) ==
    /\ removed.ok
    /\ \/ ~removed.k.procs[current].live
       \/ WalkReadsFreed(removed.k, pid, next_in_ring(removed.k, current), fuel - 1)

WalkReadsFreed(k, pid, current, fuel) ==
    IF current = 0 \/ fuel = 0 THEN FALSE
    ELSE IF k.procs[current].pid = pid \/ k.procs[current].status = "Ready" THEN FALSE
    ELSE IF k.procs[current].status = "Dead"
    THEN WalkReadsFreedAfter(pid, current, fuel, remove_task(k, k.procs[current].pid))
    ELSE WalkReadsFreed(k, pid, next_in_ring(k, current), fuel - 1)

\* the same of the call schedule(context, uptime_ms) made in the state at hand
ScheduleReadsFreed(context, uptime_ms) ==
    /\ sched.active_task # 0
    /\ LET next == get_next_thread(KNow, sched.active_task, uptime_ms)
           k == schedule_none(KNow, sched.active_task, context, next)
       IN  /\ next.kind \in {"None", "TaskDead"}
           /\ WalkReadsFreed(k, k.procs[sched.active_task].pid,
                             next_in_ring(k, sched.active_task), Len(k.procs) + 1)

\* C39: a call of schedule that reaps never reads a field of a Process or
\* Thread record that it has deallocated, and in the state it leaves no ring
\* link, thread-list link or active pointer leads to a deallocated record.
C39_NoUseAfterFree ==
    /\ [][ret'.op = "schedule" => ~ScheduleReadsFreed(cpu, ret'.arg)]_vars
    /\ []NoLinkToFreed

\* C40: the byte counters match the frame states and never underflow.  The
\* bitmap tells only whether a frame is Free, so this is stated through what
\* it implies: no counter is below zero; used_memory and reserved_memory
\* together are PAGE_SIZE times the number of frames that are not Free; and
\* when used_memory is 0, so that every such frame is a Reserved one,
\* free_frame changes neither the bitmap nor a counter, and likewise
\* free_reserved_frame when reserved_memory is 0.
C40_CountersMatchFrames ==
    /\ [](/\ pmm.free_memory >= 0 /\ pmm.used_memory >= 0 /\ pmm.reserved_memory >= 0
          /\ pmm.used_memory + pmm.reserved_memory
                 = PAGE_SIZE * Cardinality(pmm.bit_map.bits))
    /\ [][/\ (ret'.op = "free_frame" /\ pmm.used_memory = 0)
                => Accounts(pmm') = Accounts(pmm)
          /\ (ret'.op = "free_reserved_frame" /\ pmm.reserved_memory = 0)
                => Accounts(pmm') = Accounts(pmm)]_vars

====
